---- MODULE Spec2Model ----
(***************************************************************************)
(* Per-server control loop of polebot: the CRCON log-stream client puts    *)
(* LogStreamObjects on a bounded asyncio.Queue, the VotemapProcessor takes *)
(* them off and, on MATCH START, swaps the upstream votemap whitelist for  *)
(* a generated selection and restores it afterwards.  Every `await` of the *)
(* two coroutines is a position (proc_pc, client_pc); what runs between    *)
(* two awaits is one atomic step, as on a single asyncio event loop.       *)
(***************************************************************************)
EXTENDS Integers, Sequences, FiniteSets, TLC

(* ------------------------------ bounds --------------------------------- *)
\* Number of log events the game server emits in a run.
MaxEvents == 3
\* Largest number of logs in one websocket frame.
MaxFrameLogs == 2
\* Capacity of the queue in the model; stands for _QUEUE_SIZE (1000).
QueueCap == 2
\* With unlimited reconnection attempts, the delays a backoff generator has
\* yielded are counted up to this many ("or more").
DelaysCap == 2
\* The get_status calls of one caching period are counted up to this many.
FetchCap == 2
\* The clock of the cache runs up to this time.
MaxTime == 5
\* The time_to_live given to ttl_cached, in ticks of that clock.
TimeToLive == 2
\* The wrapped functions are invoked up to this many times.
MaxCalls == 4
\* num_warfare_options, num_offensive_options and num_skirmish_control_options
\* are drawn from 0..MaxCount.
MaxCount == 2
\* Up to this many layers of the history are excluded
\* (number_last_played_to_exclude).
MaxExcluded == 1
\* The delays given to backoff() are whole numbers up to MaxDelay.
MaxDelay == 3
\* A backoff generator is read up to MaxYields times.
MaxYields == 4
\* max_websocket_connection_attempts is drawn from 0..MaxAttempts.
MaxAttempts == 2
\* The versions a stored document goes through.
MaxVersion == 3

(* ------------------------- program constants --------------------------- *)
\* deque(maxlen=10)
LAYER_HISTORY_MAXLEN == 10
\* _MIN_SERVER_ERROR_STATUS
MIN_SERVER_ERROR_STATUS == 500
\* JitterRetry(): attempts
attempts == 3
\* AppConfig.max_websocket_connection_attempts (0 = retry for ever)
max_websocket_connection_attempts == 0

\* The layer catalog of the server (get_maps), by layer id.
LayerIds == {"A", "B"}
\* LogMessageType values a frame can carry: the controller asks the server
\* for these two only (log_types).
match_start == "MATCH START"
match_end == "MATCH ENDED"
LogActions == {match_start, match_end}
\* None
NoValue == "None"
\* None, for last_seen_id (the ids of the events start at 1)
NoId == 0
\* None, for the delays generator (otherwise: the delays it has yielded)
NoDelays == -1
\* None, for the log taken off the queue
NoLog == [id |-> 0, action |-> "None"]
\* WeightingParameters | None
WeightingValues == {NoValue, "WP"}
\* How an awaited API call ends: a result, ApiClientError (failed=true), or
\* any other Exception (transport, decoding).
Responses == {"ok", "api", "other"}

VARIABLES
    \* VotemapProcessor fields
    enabled, weighting_parameters, layer_history, cache,
    \* VotemapProcessor.run task: position and coroutine locals
    proc_pc, cur, status, selection, saved, pending, exit_reason,
    \* whether the task group has cancelled the votemap-manager task
    cancel_sent,
    \* asyncio.Queue
    queue, unfinished_tasks, queue_shutdown,
    \* upstream CRCON server
    whitelist,
    \* CRCONLogStreamClient.run task
    client_pc, logs_bundle, last_seen_id, delays, client_exit,
    \* CRCONLogStreamClient._first_connection, and the process_exception
    \* that _connect() gave to websockets.connect
    first_connection, process_exception,
    \* the game server's log: id of the next event it emits
    next_id,
    \* history of the run (observations, never read by the program)
    received, handled, item_outcome, item_disabled, hist_before, api_called, set_calls,
    restore_result,
    \* get_status calls issued since a cached status last expired (up to FetchCap)
    status_calls,
    \* history of the connection: whether a DNS lookup has failed ("first":
    \* on the first attempt of run(), "later": on another one), the
    \* last_seen_id of an init message no frame has followed yet, whether a
    \* frame was handled on the current connection, the last non-null
    \* last_seen_id received
    dns_failed, init_sent, frame_handled, nonnull_seen,
    \* the websocket of the current iteration of `async for` ("none" before
    \* the first), why the receive loop was last left, and the
    \* max_websocket_connection_attempts of the AppConfig
    websocket, lost_by, max_attempts,
    \* ServerController.run: position, _task_group, _task_group_ended_event,
    \* how it ended and with which failures
    ctl_pc, task_group, ended_event, run_result, run_errors,
    \* the asyncio.TaskGroup: whether it is aborting, the failures it collected
    tg_aborting, tg_errors,
    \* the stop event, its monitor task, the _force_terminate_task_group task
    stop_event, monitor_pc, terminator,
    \* a caller of ServerController.stop(wait)
    stopper_pc, stop_wait,
    \* a CacheProvider with ttl_cached methods: the clock of its TLRUCache,
    \* the cache, the call in progress, the invocations of the wrapped
    \* functions so far, what each wrapped function last returned and when,
    \* the last call that ended
    now, entries, cur_call, invocations, returned, last_call,
    \* a MapSelector: what it was constructed with, the position of
    \* get_selection, the rows of the dataframe that still have a weight, the
    \* loop of _select_layers, the ids yielded
    sel_in, sel_pc, sel_df, selected_layers, sel_i, yielded,
    \* the Orchestrator: the GuildServer records of the store, its
    \* _server_controllers, whether run() has started; the last operation the
    \* bot asked for and how it ended (an observation)
    db, server_controllers, orch_pc, orch_result,
    \* an ApiClient: its _session; the ApiRequestContext of the operation in
    \* progress: position, current_attempt, the statuses of the responses it
    \* got; how the operation ended
    session, req_pc, current_attempt, sent, call_result,
    \* a generator made by backoff(): its arguments, its position, its local
    \* delay, the delays it has yielded
    gen,
    \* the Orchestrator's task group self._tg as one server's controller
    \* task sees it: whether another task of the group has raised, the bot
    \* task, whether the group has cancelled this controller's task, and
    \* how Orchestrator.run() ended
    sup,
    \* the servers collection (one document), the coroutines that read it
    \* and update it, and the versions successful updates were read at
    doc, ops, succeeded

procVars == <<layer_history, cache, proc_pc, cur, status, selection, saved, pending,
              exit_reason, unfinished_tasks, whitelist, item_outcome, item_disabled,
              hist_before, api_called, set_calls, restore_result, status_calls>>
flagVars == <<enabled, weighting_parameters>>
queueVars == <<queue, queue_shutdown>>
connVars == <<first_connection, process_exception, dns_failed, init_sent, frame_handled,
              nonnull_seen>>
sockVars == <<websocket, lost_by>>
clientVars == <<client_pc, logs_bundle, last_seen_id, delays, client_exit, next_id, received,
                connVars, sockVars, max_attempts>>
ctlVars == <<ctl_pc, task_group, ended_event, run_result, run_errors, tg_aborting, tg_errors,
             stop_event, monitor_pc, terminator, stopper_pc, stop_wait>>
cacheVars == <<now, entries, cur_call, invocations, returned, last_call>>
selVars == <<sel_in, sel_pc, sel_df, selected_layers, sel_i, yielded>>
orchVars == <<db, server_controllers, orch_pc, orch_result>>
apiVars == <<session, req_pc, current_attempt, sent, call_result>>
dbVars == <<doc, ops, succeeded>>
moreVars == <<sup, dbVars>>
libVars == <<cacheVars, selVars, orchVars, apiVars, gen, moreVars>>
restVars == <<ctlVars, libVars>>
vars == <<procVars, flagVars, queueVars, clientVars, handled, cancel_sent, ctlVars, libVars>>

Min(a, b) == IF a < b THEN a ELSE b

(* ------------------------------ queue ---------------------------------- *)
\* asyncio.Queue.full()
QueueFull(q) == Len(q) >= QueueCap
\* Fault: a queue that puts on the side get takes from (a LIFO queue).
QueuePutLeft(q, x) == <<x>> \o q
\* asyncio.Queue._put: append to the right of the deque
QueuePut(q, x) == Append(q, x)
\* asyncio.Queue.task_done: one unfinished task less
TaskDone(u) == u - 1

(* --------------------------- processor --------------------------------- *)
\* Fault: a deque without maxlen.
appendleft_unbounded(h, x) == <<x>> \o h
\* deque.appendleft on a deque with maxlen: the rightmost item falls off.
appendleft(h, x) == SubSeq(<<x>> \o h, 1, Min(Len(h) + 1, LAYER_HISTORY_MAXLEN))

\* The processor's side of the state, as one record the handler functions map.
ProcState ==
    [pc |-> proc_pc, history |-> layer_history, cache |-> cache, status |-> status,
     selection |-> selection, saved |-> saved, pending |-> pending,
     exit_reason |-> exit_reason, unfinished |-> unfinished_tasks,
     whitelist |-> whitelist, item_outcome |-> item_outcome, api_called |-> api_called,
     set_calls |-> set_calls, restore_result |-> restore_result,
     status_calls |-> status_calls]

Commit(s) ==
    /\ proc_pc' = s.pc
    /\ layer_history' = s.history
    /\ cache' = s.cache
    /\ status' = s.status
    /\ selection' = s.selection
    /\ saved' = s.saved
    /\ pending' = s.pending
    /\ exit_reason' = s.exit_reason
    /\ unfinished_tasks' = s.unfinished
    /\ whitelist' = s.whitelist
    /\ item_outcome' = s.item_outcome
    /\ api_called' = s.api_called
    /\ set_calls' = s.set_calls
    /\ restore_result' = s.restore_result
    /\ status_calls' = s.status_calls

\* Fault: only ApiClientError is logged, another Exception leaves the handler.
handler_catch_api_only(exc) == IF exc = "api" THEN "log" ELSE "reraise"
\* _receive_and_process_message's except clauses: CancelledError and
\* QueueShutDown are re-raised, every other Exception is logged.
handler_catch(exc) == IF exc \in {"cancel", "shutdown"} THEN "reraise" ELSE "log"

\* run()'s except clauses, for an exception that left the handler.
run_exit(exc) ==
    CASE exc = "shutdown" -> "shutdown"
      [] exc = "cancel" -> "cancelled"
      [] OTHER -> "error"

\* Fault: task_done() at the end of the try body instead of in `finally`,
\* so an exception skips it.
receive_exit_without_finally(s, exc) ==
    LET t == [s EXCEPT !.pending = "none"] IN
    IF exc = "none"
    THEN [t EXCEPT !.unfinished = TaskDone(@), !.pc = "get", !.item_outcome = "ok"]
    ELSE IF handler_catch(exc) = "log"
    THEN [t EXCEPT !.pc = "get", !.item_outcome = "error"]
    ELSE [t EXCEPT !.pc = "done", !.exit_reason = run_exit(exc), !.item_outcome = "raised"]

\* The handler ends with exception `exc` ("none": it returns): finally
\* task_done(), then either back to `await queue.get()` or out of run().
receive_exit(s, exc) ==
    LET t == [s EXCEPT !.unfinished = TaskDone(@), !.pending = "none"] IN
    IF exc = "none"
    THEN [t EXCEPT !.pc = "get", !.item_outcome = "ok"]
    ELSE IF handler_catch(exc) = "log"
    THEN [t EXCEPT !.pc = "get", !.item_outcome = "error"]
    ELSE [t EXCEPT !.pc = "done", !.exit_reason = run_exit(exc), !.item_outcome = "raised"]

\* An API call is issued and the coroutine awaits its response at `pc`.
call(s, pc, name) ==
    [s EXCEPT !.pc = pc, !.api_called = TRUE,
              !.status_calls = IF name = "get_status" THEN Min(@ + 1, FetchCap) ELSE @]

\* _generate_votemap_selection, lines 164-167: the ttl_cached fetches return
\* at once on a cache hit; get_votemap_whitelist is never cached.
gen_from_config(s) ==
    IF s.cache.config THEN call(s, "gen_whitelist", "get_votemap_whitelist")
    ELSE call(s, "gen_config", "get_votemap_config")

gen_from_maps(s) ==
    IF s.cache.maps THEN gen_from_config(s) ELSE call(s, "gen_maps", "get_maps")

gen_from_status(s) ==
    IF s.cache.status # NoValue
    THEN gen_from_maps([s EXCEPT !.status = s.cache.status])
    ELSE call(s, "gen_status", "get_status")

\* _process_map_started up to its first await; the assert of line 162.
process_map_started(s) ==
    IF enabled /\ weighting_parameters # NoValue
    THEN gen_from_status(s)
    ELSE receive_exit(s, "other")

\* Fault: the status is fetched but the map is not recorded.
save_to_history_skipped(s, m) == receive_exit([s EXCEPT !.status = m], "none")
\* _process_map_ended once the status is known.
save_to_history(s, m) ==
    receive_exit([s EXCEPT !.status = m, !.history = appendleft(@, m)], "none")

\* _process_map_ended up to its first await.
process_map_ended(s) ==
    IF s.cache.status # NoValue
    THEN save_to_history(s, s.cache.status)
    ELSE call(s, "end_status", "get_status")

\* Fault: the enabled check comes after the match on match_start, so a
\* disabled processor generates a selection.
dispatch_start_unguarded(s, en, action) ==
    CASE action = match_start -> gen_from_status(s)
      [] action = match_end /\ en -> process_map_ended(s)
      [] action = match_end /\ ~en -> [s EXCEPT !.pc = "sleep_disabled"]
      [] OTHER -> receive_exit(s, "none")

\* _receive_and_process_message, lines 127-137: what a dequeued log leads to.
dispatch(s, en, action) ==
    IF ~en THEN [s EXCEPT !.pc = "sleep_disabled"]
    ELSE CASE action = match_start -> process_map_started(s)
           [] action = match_end -> process_map_ended(s)
           [] OTHER -> receive_exit(s, "none")

\* MapSelector.get_selection on the whitelist-filtered catalog: some layers
\* of it, never the current one (the standard exclusions).  The computation
\* is synchronous and can also end with an exception.
SelectorChoices(layers, current) == SUBSET (layers \ {current})

\* _set_votemap_selection's `except ApiClientError`: what is still pending
\* when the finally block is entered.
swap_catch(exc) == IF exc = "api" THEN "none" ELSE exc

\* Fault: no finally block, the handler ends once the try block is left and
\* the restore is left to happen later.
enter_finally_restore_deferred(s, exc) == receive_exit(s, swap_catch(exc))

\* Entering the finally block of _set_votemap_selection: await sleep(2).
enter_finally(s, exc) == [s EXCEPT !.pc = "sleep_b", !.pending = swap_catch(exc)]

\* Upstream effect of set_votemap_whitelist(arg).
apply_set(s, applied, arg) == IF applied THEN [s EXCEPT !.whitelist = arg] ELSE s

\* Whether the server applied a call that ended with response r.
EffectOk(r, applied) == (r = "ok" => applied) /\ (r = "api" => ~applied)


\* Continuations of _generate_votemap_selection after each awaited fetch.
get_server_status_returns(s, r, m) ==
    IF r = "ok" THEN gen_from_maps([s EXCEPT !.cache.status = m, !.status = m])
    ELSE receive_exit(s, r)

get_server_maps_returns(s, r) ==
    IF r = "ok" THEN gen_from_config([s EXCEPT !.cache.maps = TRUE])
    ELSE receive_exit(s, r)

get_votemap_config_returns(s, r) ==
    IF r = "ok" THEN call([s EXCEPT !.cache.config = TRUE], "gen_whitelist", "get_votemap_whitelist")
    ELSE receive_exit(s, r)

\* Fault: the whitelist comes from a cache filled when the server still had
\* its full whitelist.
get_votemap_whitelist_cached(s) == LayerIds
\* _get_votemap_whitelist (not decorated with ttl_cached): the whitelist the
\* server has when the call returns.
get_votemap_whitelist(s) == s.whitelist

\* _process_map_started, lines 147-151, with the selector's result `sel`
\* (or its exception): an empty selection is skipped, another one starts
\* _set_votemap_selection, whose first await reads the whitelist to save.
selection_generated(s, raised, sel) ==
    IF raised THEN receive_exit(s, "other")
    ELSE IF sel = {} THEN receive_exit(s, "none")
    ELSE call([s EXCEPT !.selection = sel], "save_whitelist", "get_votemap_whitelist")

\* _set_votemap_selection, lines 184-189: the whitelist is saved and
\* set_votemap_whitelist(selection) is issued.
saved_whitelist_returns(s, r) ==
    IF r = "ok"
    THEN call([s EXCEPT !.saved = get_votemap_whitelist(s),
                        !.set_calls = Append(@, s.selection)],
              "set_selection", "set_votemap_whitelist")
    ELSE receive_exit(s, r)

\* line 189 returns or raises.
set_selection_returns(s, r, applied) ==
    LET t == apply_set(s, applied, s.selection) IN
    IF r = "ok" THEN [t EXCEPT !.pc = "sleep_a"] ELSE enter_finally(t, r)

\* line 190 is over: reset_votemap_state() is issued.
sleep_a_returns(s) == call(s, "reset", "reset_votemap_state")

\* line 192 returns or raises; either way the finally block is next.
reset_returns(s, r) == enter_finally(s, IF r = "ok" THEN "none" ELSE r)

\* lines 199-201: the sleep of the finally block is over and
\* set_votemap_whitelist(saved_votemap_whitelist) is issued.
restore_issue(s) ==
    call([s EXCEPT !.set_calls = Append(@, s.saved)], "restore", "set_votemap_whitelist")

\* line 201 returns (the pending exception, if any, goes on) or raises (its
\* exception takes the pending one's place).
restore_returns(s, r, applied) ==
    LET t == apply_set([s EXCEPT !.restore_result = IF r = "ok" THEN "ok" ELSE "failed"],
                       applied, s.saved) IN
    receive_exit(t, IF r = "ok" THEN s.pending ELSE r)

\* _process_map_ended, lines 155-158.
end_status_returns(s, r, m) ==
    IF r = "ok" THEN save_to_history([s EXCEPT !.cache.status = m], m)
    ELSE receive_exit(s, r)

\* CancelledError is thrown into the coroutine at the await it is suspended
\* in.  Inside the try of _set_votemap_selection it reaches the finally
\* block, whose first statement is itself an await; everywhere else it
\* leaves through _receive_and_process_message's finally.
cancelled_at(s, applied) ==
    CASE s.pc = "get" ->
            [s EXCEPT !.pc = "done", !.exit_reason = run_exit("cancel")]
      [] s.pc = "set_selection" ->
            enter_finally(apply_set(s, applied, s.selection), "cancel")
      [] s.pc \in {"sleep_a", "reset"} -> enter_finally(s, "cancel")
      [] s.pc = "restore" ->
            receive_exit(apply_set([s EXCEPT !.restore_result = "failed"], applied, s.saved),
                         "cancel")
      [] OTHER -> receive_exit(s, "cancel")

(* ----------------------- processor: the actions ------------------------ *)
itemVars == <<cur, item_disabled, hist_before>>
procEnv == <<flagVars, queueVars, clientVars, handled, itemVars, restVars>>
procOnly == <<procEnv, cancel_sent>>

\* line 124: a log is taken off the queue and dispatched.
ReceiveMessage ==
    /\ proc_pc = "get"
    /\ queue # <<>>
    /\ LET log == Head(queue)
           s0 == [ProcState EXCEPT !.api_called = FALSE, !.set_calls = <<>>,
                                   !.restore_result = "none", !.selection = {},
                                   !.saved = {}, !.status = NoValue,
                                   !.item_outcome = "handling"]
       IN  /\ Commit(dispatch(s0, enabled, log.action))
           /\ queue' = Tail(queue)
           /\ cur' = log
           /\ handled' = Append(handled, log)
           /\ item_disabled' = ~enabled
           /\ hist_before' = layer_history
    /\ UNCHANGED <<flagVars, queue_shutdown, clientVars, cancel_sent, restVars>>

\* line 124 on a queue that was shut down and is empty: QueueShutDown.
ReceiveShutDown ==
    /\ proc_pc = "get"
    /\ queue_shutdown
    /\ queue = <<>>
    /\ Commit([ProcState EXCEPT !.pc = "done", !.exit_reason = run_exit("shutdown")])
    /\ UNCHANGED procOnly

\* line 128: await asyncio.sleep(1); return
SleepDisabledDone ==
    /\ proc_pc = "sleep_disabled"
    /\ Commit(receive_exit(ProcState, "none"))
    /\ UNCHANGED procOnly

GetServerStatusDone ==
    /\ proc_pc = "gen_status"
    /\ \E r \in Responses, m \in LayerIds : Commit(get_server_status_returns(ProcState, r, m))
    /\ UNCHANGED procOnly

GetServerMapsDone ==
    /\ proc_pc = "gen_maps"
    /\ \E r \in Responses : Commit(get_server_maps_returns(ProcState, r))
    /\ UNCHANGED procOnly

GetVotemapConfigDone ==
    /\ proc_pc = "gen_config"
    /\ \E r \in Responses : Commit(get_votemap_config_returns(ProcState, r))
    /\ UNCHANGED procOnly

\* line 167 returns: the catalog is filtered and the selector runs.
GetVotemapWhitelistDone ==
    /\ proc_pc = "gen_whitelist"
    /\ \/ \E r \in Responses \ {"ok"} : Commit(receive_exit(ProcState, r))
       \/ LET layers == LayerIds \cap get_votemap_whitelist(ProcState) IN
          \/ \E sel \in SelectorChoices(layers, status) :
                Commit(selection_generated(ProcState, FALSE, sel))
          \/ Commit(selection_generated(ProcState, TRUE, {}))
    /\ UNCHANGED procOnly

SavedWhitelistDone ==
    /\ proc_pc = "save_whitelist"
    /\ \E r \in Responses : Commit(saved_whitelist_returns(ProcState, r))
    /\ UNCHANGED procOnly

SetSelectionDone ==
    /\ proc_pc = "set_selection"
    /\ \E r \in Responses, applied \in BOOLEAN :
          /\ EffectOk(r, applied)
          /\ Commit(set_selection_returns(ProcState, r, applied))
    /\ UNCHANGED procOnly

SleepADone ==
    /\ proc_pc = "sleep_a"
    /\ Commit(sleep_a_returns(ProcState))
    /\ UNCHANGED procOnly

ResetDone ==
    /\ proc_pc = "reset"
    /\ \E r \in Responses : Commit(reset_returns(ProcState, r))
    /\ UNCHANGED procOnly

SleepBDone ==
    /\ proc_pc = "sleep_b"
    /\ Commit(restore_issue(ProcState))
    /\ UNCHANGED procOnly

RestoreDone ==
    /\ proc_pc = "restore"
    /\ \E r \in Responses, applied \in BOOLEAN :
          /\ EffectOk(r, applied)
          /\ Commit(restore_returns(ProcState, r, applied))
    /\ UNCHANGED procOnly

EndStatusDone ==
    /\ proc_pc = "end_status"
    /\ \E r \in Responses, m \in LayerIds : Commit(end_status_returns(ProcState, r, m))
    /\ UNCHANGED procOnly

\* The task group aborts: task.cancel() on the votemap-manager task, once.
CancelProcessor ==
    /\ proc_pc # "done"
    /\ ~cancel_sent
    /\ cancel_sent' = TRUE
    /\ \E applied \in BOOLEAN :
          /\ (proc_pc \notin {"set_selection", "restore"} => ~applied)
          /\ Commit(cancelled_at(ProcState, applied))
    /\ UNCHANGED procEnv

\* Time passes: the cached status outlives its 10 s time to live.  A run of
\* the model is shorter than the 10 min and 8 h the votemap config and the
\* maps are cached for, so those two entries stay once they are stored.
CacheExpire ==
    /\ cache.status # NoValue
    /\ cache' = [cache EXCEPT !.status = NoValue]
    /\ status_calls' = 0
    /\ UNCHANGED <<layer_history, proc_pc, cur, status, selection, saved, pending,
                   exit_reason, unfinished_tasks, whitelist, item_outcome, item_disabled,
                   hist_before, api_called, set_calls, restore_result>>
    /\ UNCHANGED <<flagVars, queueVars, clientVars, handled, cancel_sent, restVars>>


(* ------------------- VotemapProcessor / ServerController flags --------- *)
\* Fault: the setter assigns without looking at the parameters.
enabled_setter_unchecked(en, wp, value) == value
\* VotemapProcessor.enabled setter: the new value of _enabled (the old one
\* when it raises ValueError).
enabled_setter(en, wp, value) == IF value /\ wp = NoValue THEN en ELSE value

\* VotemapProcessor.weighting_params setter: <<_enabled, _weighting_parameters>>.
weighting_params_setter(en, wp, value) ==
    <<IF value = NoValue THEN enabled_setter(en, wp, FALSE) ELSE en, value>>

\* ServerController.weighting_parameters setter: it assigns the processor's
\* private field.
controller_weighting_parameters_setter(en, wp, value) == <<en, value>>

flagEnv == <<procVars, queueVars, clientVars, handled, cancel_sent, restVars>>

\* ServerController.votemap_enabled = value
SetVotemapEnabled ==
    /\ \E value \in BOOLEAN : enabled' = enabled_setter(enabled, weighting_parameters, value)
    /\ UNCHANGED <<weighting_parameters, flagEnv>>

\* ServerController.weighting_parameters = value
SetWeightingParameters ==
    /\ \E value \in WeightingValues :
          LET new == controller_weighting_parameters_setter(enabled, weighting_parameters,
                                                            value)
          IN  enabled' = new[1] /\ weighting_parameters' = new[2]
    /\ UNCHANGED flagEnv

\* VotemapProcessor.enabled = value
ProcessorSetEnabled ==
    /\ \E value \in BOOLEAN : enabled' = enabled_setter(enabled, weighting_parameters, value)
    /\ UNCHANGED <<weighting_parameters, flagEnv>>

\* VotemapProcessor.weighting_params = value
ProcessorSetWeightingParams ==
    /\ \E value \in WeightingValues :
          LET new == weighting_params_setter(enabled, weighting_parameters, value)
          IN  enabled' = new[1] /\ weighting_parameters' = new[2]
    /\ UNCHANGED flagEnv

(* -------------------------- log-stream client -------------------------- *)
\* _handle_incoming_message, lines 200-201: put the logs one by one; put
\* suspends when the queue is full.  <<queue, logs still to put>>.
RECURSIVE put_logs(_, _)
put_logs(q, logs) ==
    IF logs = <<>> \/ QueueFull(q) THEN <<q, logs>>
    ELSE put_logs(QueuePut(q, Head(logs)), Tail(logs))

\* The frame the server sends next: up to MaxFrameLogs new events; its
\* last_seen_id is the id of the newest event sent so far.
FrameLogs(n, acts) == [i \in 1..n |-> [id |-> next_id + i - 1, action |-> acts[i]]]

\* Fault: the generator yields one delay more than max_attempts.
backoff_yields_one_more(n) == max_attempts = 0 \/ n <= max_attempts

\* backoff(max_attempts): whether a generator that has yielded n delays
\* yields one more.
backoff_yields(n) ==
    \/ max_attempts = 0
    \/ n = 0
    \/ n < max_attempts

\* Fault: the websocket is left as it is.
websocket_left_open(ws) == ws
\* `finally: await websocket.close()`, line 128.
websocket_close(ws) == IF ws = "open" THEN "closed" ELSE ws

\* Fault: the logs of the frame are put on the queue before its error is
\* looked at.
error_frame_logs_kept(logs) == logs
\* _handle_incoming_message, lines 193-195: the error is raised before
\* logs_bundle is read, nothing of the frame is put on the queue.
error_frame_logs(logs) == <<>>

\* Fault: put_nowait instead of put; QueueFull is an Exception, it is logged
\* and the rest of the frame is given up.
PutBundleNoWait(logs) ==
    LET res == put_logs(queue, logs) IN
    /\ queue' = res[1]
    /\ unfinished_tasks' = unfinished_tasks + (Len(logs) - Len(res[2]))
    /\ logs_bundle' = <<>>
    /\ client_pc' = "recv"

\* The for loop over logs_bundle, entered or resumed with `logs` to put.
\* put on a queue that was shut down raises QueueShutDown, an Exception:
\* it is logged and the rest of the frame is given up (lines 205-210).
PutBundle(logs) ==
    IF queue_shutdown
    THEN /\ logs_bundle' = <<>>
         /\ client_pc' = "recv"
         /\ UNCHANGED <<queue, unfinished_tasks>>
    ELSE LET res == put_logs(queue, logs) IN
         /\ queue' = res[1]
         /\ unfinished_tasks' = unfinished_tasks + (Len(logs) - Len(res[2]))
         /\ logs_bundle' = res[2]
         /\ client_pc' = IF res[2] = <<>> THEN "recv" ELSE "put"

clientProcUnchanged ==
    UNCHANGED <<layer_history, cache, proc_pc, cur, status, selection, saved, pending,
                exit_reason, whitelist, item_outcome, item_disabled, hist_before, api_called,
                set_calls, restore_result, status_calls, flagVars, queue_shutdown, handled,
                cancel_sent, max_attempts, restVars>>

\* How an attempt to open the connection ends: it opens; socket.gaierror
\* (the DNS lookup fails); another OSError, EOFError, timeout or 5xx status;
\* the server refuses (NotImplementedError, another status).
ConnectOutcomes == {"ok", "dns", "transient", "refused"}

\* Fault: socket.gaierror is an OSError and is retried like one.
process_exception_dns_retried(exc) == IF exc \in {"dns", "transient"} THEN "retry" ELSE "raise"
\* process_exception_fail_on_dns_error
process_exception_fail_on_dns_error(exc) ==
    IF exc = "dns" THEN "raise"
    ELSE IF exc = "transient" THEN "retry"
    ELSE "raise"

\* websockets.asyncio.client.process_exception: socket.gaierror is an OSError.
process_exception_standard_rules(exc) ==
    IF exc \in {"dns", "transient"} THEN "retry" ELSE "raise"

\* _connect(), lines 155-159: the rule for this websockets.connect object.
connect_rule(first) == IF first THEN "fail_on_dns_error" ELSE "standard_rules"

apply_process_exception(rule, exc) ==
    IF rule = "fail_on_dns_error" THEN process_exception_fail_on_dns_error(exc)
    ELSE process_exception_standard_rules(exc)

\* `async for websocket in self._connect()`: _connect() is evaluated once,
\* when run() starts; then every attempt of the websockets.connect iterator
\* either opens the connection (the init message is sent), or fails and
\* process_exception says whether the iterator retries or raises.
ClientConnect ==
    /\ client_pc = "connect"
    /\ \E exc \in ConnectOutcomes :
          LET rule == IF process_exception = "unset" THEN connect_rule(first_connection)
                      ELSE process_exception
          IN  /\ process_exception' = rule
              /\ first_connection' = FALSE
              /\ dns_failed' = IF exc # "dns" THEN dns_failed
                               ELSE IF process_exception = "unset" THEN "first"
                               ELSE "later"
              /\ IF exc = "ok"
                 THEN /\ client_pc' = "recv"
                      /\ init_sent' = last_seen_id
                      /\ frame_handled' = FALSE
                      /\ websocket' = "open"
                      /\ lost_by' = "none"
                      /\ UNCHANGED client_exit
                 ELSE IF apply_process_exception(rule, exc) = "retry"
                 THEN UNCHANGED <<client_pc, client_exit, init_sent, frame_handled, sockVars>>
                 ELSE /\ client_pc' = "done"
                      /\ client_exit' = IF exc = "dns" THEN "dns_error" ELSE "error"
                      /\ UNCHANGED <<init_sent, frame_handled, sockVars>>
    /\ UNCHANGED <<logs_bundle, last_seen_id, delays, next_id, received, queue,
                   unfinished_tasks, nonnull_seen>>
    /\ clientProcUnchanged

\* line 197: self.last_seen_id = response.last_seen_id
stored_last_seen_id(old, seen) == seen

\* lines 95-96: a frame without error arrives and is handled; its
\* last_seen_id is the id of the newest event sent so far, or null.
ReceiveLogsWith(null_id) ==
    /\ client_pc = "recv"
    /\ \E n \in 0..Min(MaxFrameLogs, MaxEvents - (next_id - 1)) :
       \E acts \in [1..n -> LogActions] :
          LET logs == FrameLogs(n, acts)
              seen == IF null_id THEN NoId ELSE next_id + n - 1
          IN  /\ next_id' = next_id + n
              /\ received' = received \o logs
              /\ last_seen_id' = stored_last_seen_id(last_seen_id, seen)
              /\ nonnull_seen' = IF seen = NoId THEN nonnull_seen ELSE seen
              /\ PutBundle(logs)
    /\ frame_handled' = TRUE
    /\ init_sent' = NoId
    /\ UNCHANGED <<delays, client_exit, first_connection, process_exception, dns_failed,
                   sockVars>>
    /\ clientProcUnchanged

ClientReceiveLogs == ReceiveLogsWith(FALSE)

\* The same with a frame whose last_seen_id is null (StreamID | None).
ClientReceiveLogsNoId == ReceiveLogsWith(TRUE)

\* lines 190-191 raise: the frame cannot be decoded; logged, next frame.
ClientReceiveMalformed ==
    /\ client_pc = "recv"
    /\ UNCHANGED <<clientVars, queue, unfinished_tasks>>
    /\ clientProcUnchanged

\* A frame with an error field (LogStreamMessageError) or the connection
\* closing (ConnectionClosed): lines 98-122, a delay is drawn and slept, or
\* the exception is raised again when the generator is exhausted.  The
\* `else: delays = None` of lines 124-125 belongs to a try whose body is
\* `while True` without break: the body ends by an exception only, the else
\* clause never runs and no step sets delays back to None.
RetryOrRaise(why) ==
    /\ lost_by' = why
    /\ LET n == IF delays = NoDelays THEN 0 ELSE delays IN
       IF backoff_yields(n)
       THEN /\ client_pc' = "sleep"
            /\ delays' = IF max_attempts = 0 THEN Min(n + 1, DelaysCap) ELSE n + 1
            /\ UNCHANGED <<client_exit, websocket>>
       ELSE /\ client_pc' = "done"
            /\ client_exit' = "error"
            /\ delays' = n
            /\ websocket' = websocket_close(websocket)

\* websocket.recv() raises ConnectionClosed.
ClientConnectionLost ==
    /\ client_pc = "recv"
    /\ RetryOrRaise("closed")
    /\ UNCHANGED <<logs_bundle, last_seen_id, next_id, received, queue, unfinished_tasks,
                   connVars>>
    /\ clientProcUnchanged

\* A frame with a non-empty error arrives, with or without logs (events the
\* server has not sent in a frame that was handled): LogStreamMessageError.
ClientReceiveError ==
    /\ client_pc = "recv"
    /\ \E n \in 0..Min(MaxFrameLogs, MaxEvents - (next_id - 1)) :
       \E acts \in [1..n -> LogActions] :
          LET logs == error_frame_logs(FrameLogs(n, acts))
              res == put_logs(queue, logs)
          IN  /\ queue' = res[1]
              /\ unfinished_tasks' = unfinished_tasks + (Len(logs) - Len(res[2]))
    /\ RetryOrRaise("error_frame")
    /\ UNCHANGED <<logs_bundle, last_seen_id, next_id, received, connVars>>
    /\ clientProcUnchanged

\* line 121 is over: continue, the websocket is closed, reconnect.
ClientSleepDone ==
    /\ client_pc = "sleep"
    /\ client_pc' = "connect"
    /\ websocket' = websocket_close(websocket)
    /\ lost_by' = "none"
    /\ UNCHANGED <<logs_bundle, last_seen_id, delays, client_exit, next_id, received,
                   queue, unfinished_tasks, connVars>>
    /\ clientProcUnchanged

\* line 201: the suspended put is woken (room in the queue, or shutdown).
ClientPutResume ==
    /\ client_pc = "put"
    /\ ~QueueFull(queue) \/ queue_shutdown
    /\ PutBundle(logs_bundle)
    /\ UNCHANGED <<last_seen_id, delays, client_exit, next_id, received, connVars, sockVars>>
    /\ clientProcUnchanged

\* task.cancel() on the log-stream-client task, at the await it is in.
CancelClient ==
    /\ client_pc # "done"
    /\ client_pc' = "done"
    /\ client_exit' = "cancelled"
    /\ logs_bundle' = <<>>
    /\ websocket' = websocket_close(websocket)
    /\ UNCHANGED <<last_seen_id, delays, next_id, received, queue, unfinished_tasks,
                   connVars, lost_by>>
    /\ clientProcUnchanged

\* queue.shutdown(), as the processor's test harness calls it.
QueueShutdown ==
    /\ ~queue_shutdown
    /\ queue_shutdown' = TRUE
    /\ UNCHANGED <<procVars, flagVars, queue, clientVars, handled, cancel_sent, restVars>>

(* -------------------------- server controller -------------------------- *)
ctlEnv == <<procVars, flagVars, queueVars, clientVars, handled, cancel_sent, libVars>>

\* Fault: run() does not clear the event, it stays set from __init__.
task_group_ended_event_kept(ev) == ev
\* run(), line 107: self._task_group_ended_event.clear()
task_group_ended_event_clear(ev) == FALSE

\* `except* TerminateTaskGroup: pass`: the failures of the group that are
\* raised on.
except_star_terminate(errors) == errors \ {"terminate"}

\* The failures a log-stream-client task can end with.
ClientFailures == {"error", "dns_error"}

\* _stop_internal: the _force_terminate_task_group task after it, or
\* "RuntimeError" (TaskGroup.create_task on a group that is shutting down).
stop_internal(tg, aborting, term) ==
    IF ~tg THEN term
    ELSE IF aborting THEN "RuntimeError"
    ELSE "pending"

\* TaskGroup._abort(): task.cancel() on every task that is not done.  The
\* monitor only awaits the stop event and a task that has not started never
\* runs, so both end here; the processor and the client get their
\* CancelledError in GroupCancelProcessor and GroupCancelClient.
TaskGroupAbort(errors) ==
    /\ tg_errors' = errors
    /\ tg_aborting' = TRUE
    /\ monitor_pc' = IF monitor_pc = "wait" THEN "cancelled" ELSE monitor_pc

\* run(), lines 106-113: the event is cleared, the group is entered, the
\* three tasks are created and __aexit__ waits for them.
ControllerRun ==
    /\ ctl_pc = "idle"
    /\ ctl_pc' = "group"
    /\ ended_event' = task_group_ended_event_clear(ended_event)
    /\ task_group' = TRUE
    /\ monitor_pc' = "wait"
    /\ UNCHANGED <<run_result, run_errors, tg_aborting, tg_errors, stop_event, terminator,
                   stopper_pc, stop_wait, ctlEnv>>

\* The stop event is set from outside.
SetStopEvent ==
    /\ ~stop_event
    /\ stop_event' = TRUE
    /\ UNCHANGED <<ctl_pc, task_group, ended_event, run_result, run_errors, tg_aborting,
                   tg_errors, monitor_pc, terminator, stopper_pc, stop_wait, ctlEnv>>

\* _monitor_stop_event: the wait is over, _stop_internal() is called.
MonitorStopEvent ==
    /\ monitor_pc = "wait"
    /\ stop_event
    /\ monitor_pc' = "done"
    /\ terminator' = stop_internal(task_group, tg_aborting, terminator)
    /\ UNCHANGED <<ctl_pc, task_group, ended_event, run_result, run_errors, tg_aborting,
                   tg_errors, stop_event, stopper_pc, stop_wait, ctlEnv>>

\* _force_terminate_task_group runs: it raises TerminateTaskGroup, the
\* group collects it and aborts.
ForceTerminateTaskGroup ==
    /\ terminator = "pending"
    /\ terminator' = "raised"
    /\ TaskGroupAbort(tg_errors \cup {"terminate"})
    /\ UNCHANGED <<ctl_pc, task_group, ended_event, run_result, run_errors, stop_event,
                   stopper_pc, stop_wait, ctlEnv>>

\* The log-stream-client task has ended with an exception: the group
\* collects it and aborts.
ClientTaskFailed ==
    /\ ctl_pc = "group"
    /\ client_pc = "done"
    /\ client_exit \in ClientFailures
    /\ client_exit \notin tg_errors
    /\ TaskGroupAbort(tg_errors \cup {client_exit})
    /\ terminator' = IF terminator = "pending" THEN "cancelled" ELSE terminator
    /\ UNCHANGED <<ctl_pc, task_group, ended_event, run_result, run_errors, stop_event,
                   stopper_pc, stop_wait, ctlEnv>>

\* The CancelledError of the aborting group reaches the votemap-manager task.
GroupCancelProcessor ==
    /\ tg_aborting
    /\ CancelProcessor

\* The CancelledError of the aborting group reaches the log-stream-client
\* task.
GroupCancelClient ==
    /\ tg_aborting
    /\ CancelClient

\* Every task of the group is done: __aexit__ raises the collected failures
\* as a group, except* takes TerminateTaskGroup out, and the finally block
\* runs up to its `await asyncio.sleep(0)`.
TaskGroupExit ==
    /\ ctl_pc = "group"
    /\ proc_pc = "done"
    /\ client_pc = "done"
    /\ client_exit \in ClientFailures => client_exit \in tg_errors
    /\ monitor_pc # "wait"
    /\ terminator # "pending"
    /\ ctl_pc' = "finally"
    /\ run_errors' = except_star_terminate(tg_errors)
    /\ task_group' = FALSE
    /\ ended_event' = TRUE
    /\ UNCHANGED <<run_result, tg_aborting, tg_errors, stop_event, monitor_pc, terminator,
                   stopper_pc, stop_wait, ctlEnv>>

\* lines 119-123: the tasks are logged; run() returns, or raises what
\* except* left.
RunReturns ==
    /\ ctl_pc = "finally"
    /\ ctl_pc' = "done"
    /\ run_result' = IF run_errors # {} THEN "raised"
                     ELSE IF sup.cancelled THEN "cancelled"
                     ELSE "returned"
    /\ UNCHANGED <<task_group, ended_event, run_errors, tg_aborting, tg_errors, stop_event,
                   monitor_pc, terminator, stopper_pc, stop_wait, ctlEnv>>

\* stop(wait): _stop_internal(), then the wait for the event if asked for.
Stop ==
    /\ stopper_pc = "idle"
    /\ \E wait \in BOOLEAN :
          LET t == stop_internal(task_group, tg_aborting, terminator) IN
          /\ stop_wait' = wait
          /\ IF t = "RuntimeError"
             THEN stopper_pc' = "raised" /\ UNCHANGED terminator
             ELSE /\ terminator' = t
                  /\ stopper_pc' = IF wait /\ ~ended_event THEN "waiting" ELSE "returned"
    /\ UNCHANGED <<ctl_pc, task_group, ended_event, run_result, run_errors, tg_aborting,
                   tg_errors, stop_event, monitor_pc, ctlEnv>>

\* line 129: the event the caller of stop() waits for is set.
StopWaitDone ==
    /\ stopper_pc = "waiting"
    /\ ended_event
    /\ stopper_pc' = "returned"
    /\ UNCHANGED <<ctl_pc, task_group, ended_event, run_result, run_errors, tg_aborting,
                   tg_errors, stop_event, monitor_pc, terminator, stop_wait, ctlEnv>>

(* ----------------------------- ttl_cached ------------------------------ *)
\* Two decorated methods of one CacheProvider, called without arguments: a
\* plain one and a coroutine function.  The cache key holds the function
\* name, so each has its own entry.
Methods == {"long_ttl", "long_ttl_async"}

is_async_callable(m) == m = "long_ttl_async"

\* No CacheItem: what cache.get(cache_key, None) gives for a missing key.
NoItem == [value |-> 0, expires |-> 0]

\* The wrapped function has not returned yet.
NoReturn == [value |-> 0, at |-> 0]

NoCall == [pc |-> "idle", method |-> "none", start |-> 0, prior |-> NoReturn]

\* Fault: the entry lives one tick longer than its time to live.
cache_item_ttu_late(time, ttl) == time + ttl + 1
\* cache_item_ttu: the time up to which the item is used.
cache_item_ttu(time, ttl) == time + ttl

\* TLRUCache.get: the stored item, unless the clock has reached its expiry.
cache_get(item, time) == IF time < item.expires THEN item ELSE NoItem

\* cache[cache_key] = CacheItem(time_to_live, value): TLRUCache asks the ttu
\* function for the expiry and drops an item that is expired already.
cache_set(value, time) ==
    LET expires == cache_item_ttu(time, TimeToLive) IN
    IF time < expires THEN [value |-> value, expires |-> expires] ELSE NoItem

cacheEnv == <<procVars, flagVars, queueVars, clientVars, handled, cancel_sent, ctlVars,
              selVars, orchVars, apiVars, gen, moreVars>>

\* The cache's timer advances.
CacheTick ==
    /\ now < MaxTime
    /\ now' = now + 1
    /\ UNCHANGED <<entries, cur_call, invocations, returned, last_call, cacheEnv>>

\* _sync_run / _async_run up to the wrapped call: try_get_cache, then
\* either the cached value is returned or the wrapped function is invoked.
run_begin(m) ==
    LET cached_value == cache_get(entries[m], now) IN
    IF cached_value # NoItem
    THEN /\ last_call' = [method |-> m, start |-> now, value |-> cached_value.value,
                          invoked |-> FALSE, raised |-> FALSE, prior |-> returned[m]]
         /\ UNCHANGED <<cur_call, invocations>>
    ELSE /\ invocations < MaxCalls
         /\ invocations' = invocations + 1
         /\ cur_call' = [pc |-> IF is_async_callable(m) THEN "await" ELSE "call",
                         method |-> m, start |-> now, prior |-> returned[m]]
         /\ UNCHANGED last_call

\* A call of a decorated method begins; calls do not overlap.
CallBegin ==
    /\ cur_call.pc = "idle"
    /\ \E m \in Methods : run_begin(m)
    /\ UNCHANGED <<now, entries, returned, cacheEnv>>

\* The wrapped function returns (every invocation gives a new value): the
\* value is stored and returned.
WrappedReturns ==
    /\ cur_call.pc \in {"call", "await"}
    /\ entries' = [entries EXCEPT ![cur_call.method] = cache_set(invocations, now)]
    /\ returned' = [returned EXCEPT ![cur_call.method] = [value |-> invocations, at |-> now]]
    /\ last_call' = [method |-> cur_call.method, start |-> cur_call.start,
                     value |-> invocations, invoked |-> TRUE, raised |-> FALSE,
                     prior |-> cur_call.prior]
    /\ cur_call' = NoCall
    /\ UNCHANGED <<now, invocations, cacheEnv>>

\* The wrapped function raises: nothing is stored.
WrappedRaises ==
    /\ cur_call.pc \in {"call", "await"}
    /\ last_call' = [method |-> cur_call.method, start |-> cur_call.start, value |-> 0,
                     invoked |-> TRUE, raised |-> TRUE, prior |-> cur_call.prior]
    /\ cur_call' = NoCall
    /\ UNCHANGED <<now, entries, invocations, returned, cacheEnv>>

(* ----------------------------- MapSelector ----------------------------- *)
\* The layers the server knows: two warfare layers on two maps, two
\* offensive layers, a control and a phased skirmish layer on those maps.
Universe == {"W1", "W2", "O1", "O2", "S1", "P1"}

game_mode(l) ==
    CASE l \in {"W1", "W2"} -> "warfare"
      [] l \in {"O1", "O2"} -> "offensive"
      [] l = "P1" -> "phased"
      [] OTHER -> "control"

map_id(l) == IF l \in {"W1", "O1", "P1"} THEN "m1" ELSE "m2"

SKIRMISH_MODES == {"control", "majority", "phased"}

Groups == {"warfare", "offensive", "skirmish"}

\* get_layer_dataframes: df_warfare, df_offensive, df_skirmish.
layer_dataframe(layers, group) ==
    {l \in layers : game_mode(l) = (IF group = "skirmish" THEN "control" ELSE group)}

\* num_warfare_options, num_offensive_options, num_skirmish_control_options
count_of(in, group) ==
    CASE group = "warfare" -> in.w
      [] group = "offensive" -> in.o
      [] OTHER -> in.s

\* Fault: the skirmish group is left empty after a control layer only.
returns_empty_control_only(in, group) ==
    \/ group = "offensive" /\ game_mode(in.current) = "offensive" /\ ~in.consecutive_offensives
    \/ group = "skirmish" /\ game_mode(in.current) = "control" /\ ~in.consecutive_skirmishes

\* _get_offensive, _get_skirmish: the group is left empty after a layer of
\* the same kind unless consecutive ones are allowed.
returns_empty(in, group) ==
    \/ group = "offensive" /\ game_mode(in.current) = "offensive" /\ ~in.consecutive_offensives
    \/ group = "skirmish" /\ game_mode(in.current) \in SKIRMISH_MODES
           /\ ~in.consecutive_skirmishes

\* Fault: only the layers of the history are excluded.
standard_exclusions_history_only(in) == in.excluded
\* _prepare_dataframe, lines 138-140
standard_exclusions(in) == {in.current} \cup in.excluded

\* _prepare_dataframe, lines 146-149
maps_to_exclude(in) == {map_id(l) : l \in in.excluded}

\* _prepare_dataframe, lines 141-150: the rows that are left.
filtered(in, df) ==
    LET a == df \ standard_exclusions(in) IN
    IF in.same_map THEN {l \in a : map_id(l) \notin maps_to_exclude(in)} ELSE a

\* Whether _prepare_dataframe can return, and whether it can raise: line 147
\* raises KeyError for a layer of the history that is not in the catalog;
\* line 158 applies ~ to the attackers column before the comparison, which
\* is a TypeError for a column of team names and may pass on an empty one.
prepare_may_return(in, df) ==
    /\ in.same_map => in.excluded \subseteq in.layers
    /\ in.opposite_sides => filtered(in, df) = {}

prepare_may_raise(in, df) ==
    \/ in.same_map /\ ~(in.excluded \subseteq in.layers)
    \/ in.opposite_sides

\* The n! orders a set of n ids can be iterated in.
Orderings(S) ==
    {q \in [1..Cardinality(S) -> S] : \A e \in S : \E i \in DOMAIN q : q[i] = e}

selEnv == <<procVars, flagVars, queueVars, clientVars, handled, cancel_sent, ctlVars,
            cacheVars, orchVars, apiVars, gen, moreVars>>

\* _get_warfare, _get_offensive, _get_skirmish up to the loop of
\* _select_layers.
EnterGroup(group) ==
    LET df == layer_dataframe(sel_in.layers, group) IN
    /\ selected_layers' = {}
    /\ sel_i' = 0
    /\ IF returns_empty(sel_in, group)
       THEN sel_pc' = group /\ sel_df' = {}
       ELSE \/ /\ prepare_may_return(sel_in, df)
               /\ sel_pc' = group
               /\ sel_df' = filtered(sel_in, df)
            \/ /\ prepare_may_raise(sel_in, df)
               /\ sel_pc' = "raised"
               /\ sel_df' = {}

\* get_selection is called.
GetSelection ==
    /\ sel_pc = "idle"
    /\ EnterGroup("warfare")
    /\ UNCHANGED <<sel_in, yielded, selEnv>>

\* Fault: line 129 is missing, the chosen row keeps its decayed score.
rows_with_weight_chosen_kept(df, selected_layer, decay_zero) ==
    {l \in df : ~(decay_zero /\ map_id(l) = map_id(selected_layer))}
\* _select_layers, lines 124-129: the rows whose overall weighting is not
\* zero after the draw.  The scores of the chosen layer's map are
\* multiplied by map_repeat_decay and the chosen row's score is set to 0.
rows_with_weight(df, selected_layer, decay_zero) ==
    {l \in df \ {selected_layer} : ~(decay_zero /\ map_id(l) = map_id(selected_layer))}

\* One pass of the loop of _select_layers: a row with a non-zero weight is
\* drawn and its weight set to zero; the rows of the same map keep a weight
\* unless the map's repeat decay is zero.
SelectLayer ==
    /\ sel_pc \in Groups
    /\ sel_i < count_of(sel_in, sel_pc)
    /\ sel_df # {}
    /\ \E selected_layer \in sel_df :
          /\ selected_layers' = selected_layers \cup {selected_layer}
          /\ sel_df' = rows_with_weight(sel_df, selected_layer, sel_in.decay_zero)
    /\ sel_i' = sel_i + 1
    /\ UNCHANGED <<sel_in, sel_pc, yielded, selEnv>>

\* The loop is over (count passes, or every weight is zero): the set is
\* chained to the result and the next group is selected.
SelectGroupDone ==
    /\ sel_pc \in Groups
    /\ sel_i = count_of(sel_in, sel_pc) \/ sel_df = {}
    /\ \E q \in Orderings(selected_layers) : yielded' = yielded \o q
    /\ CASE sel_pc = "warfare" -> EnterGroup("offensive")
         [] sel_pc = "offensive" -> EnterGroup("skirmish")
         [] OTHER -> /\ sel_pc' = "done"
                     /\ UNCHANGED <<sel_df, selected_layers, sel_i>>
    /\ UNCHANGED <<sel_in, selEnv>>

\* The selectors that can be constructed: a catalog (all layers, or all but
\* one that is not on the whitelist), the current layer (one of each game
\* mode), the votemap configuration and the layers of the history to
\* exclude.
SelectorInputs ==
    [layers : {Universe} \cup {Universe \ {l} : l \in {"W2", "O2", "S1"}},
     current : {"W1", "O1", "S1", "P1"},
     w : 0..MaxCount, o : 0..MaxCount, s : 0..MaxCount,
     excluded : {X \in SUBSET Universe : Cardinality(X) <= MaxExcluded},
     same_map : BOOLEAN, opposite_sides : BOOLEAN,
     consecutive_offensives : BOOLEAN, consecutive_skirmishes : BOOLEAN,
     decay_zero : BOOLEAN]

(* ----------------------------- Orchestrator ---------------------------- *)
\* The servers a guild can have (their ObjectId).
ServerIds == {"s1", "s2"}

\* No GuildServer document with this id.
NoRecord == [present |-> FALSE, wp |-> NoValue, enable |-> FALSE]
\* No entry in _server_controllers.
NoController == [running |-> FALSE, wp |-> NoValue, enabled |-> FALSE]

\* What a settings file can hold: weighting parameters, or something the
\* schema rejects.
SettingsFiles == {"WP", "WP2", "invalid"}

\* How the get_status call of the health check ends.
HealthOutcomes == {"ok", "api_error", "dns_error", "content_type", "other"}

\* How a write to the store ends.
StoreOutcomes == {"ok", "DatastoreError"}

\* Fault: only an API error counts as a failed health check.
attempt_connect_api_errors_only(health) ==
    IF health = "api_error" THEN "refused" ELSE "connected"
\* _attempt_connect_to_server: (True, name), (False, message), or the
\* exception is raised again.
attempt_connect(health) ==
    CASE health = "ok" -> "connected"
      [] health \in {"api_error", "dns_error", "content_type"} -> "refused"
      [] OTHER -> "raised"

\* add_guild_server: <<store, how the call ends>>.
add_guild_server(d, id, health, store) ==
    CASE attempt_connect(health) = "refused" -> <<d, "OrchestrationError">>
      [] attempt_connect(health) = "raised" -> <<d, "raised">>
      [] OTHER ->
            IF store = "ok"
            THEN <<[d EXCEPT ![id] = [present |-> TRUE, wp |-> NoValue, enable |-> FALSE]],
                   "ok">>
            ELSE <<d, "OrchestrationError">>

\* remove_guild_server: <<store, how the call ends>>.
remove_guild_server(d, id, store) ==
    IF ~d[id].present THEN <<d, "OrchestrationError">>
    ELSE IF store = "ok" THEN <<[d EXCEPT ![id] = NoRecord], "ok">>
    ELSE <<d, "OrchestrationError">>

\* _run_server_controller up to `async with server_controller`.
start_controller(rec) ==
    LET new == controller_weighting_parameters_setter(FALSE, NoValue, rec.wp) IN
    [running |-> TRUE, wp |-> new[2],
     enabled |-> IF rec.enable THEN enabled_setter(new[1], new[2], TRUE) ELSE new[1]]

\* upload_server_votemap_settings: <<store, controllers, how the call ends>>.
upload_server_votemap_settings(d, c, id, file, store) ==
    CASE file = "invalid" -> <<d, c, "OrchestrationError">>
      [] ~d[id].present -> <<d, c, "OrchestrationError">>
      [] ~c[id].running -> <<d, c, "KeyError">>
      [] OTHER ->
            LET new == controller_weighting_parameters_setter(c[id].enabled, c[id].wp, file)
                c1 == [c EXCEPT ![id].enabled = new[1], ![id].wp = new[2]]
            IN  IF store = "ok" THEN <<[d EXCEPT ![id].wp = file], c1, "ok">>
                ELSE <<d, c1, "OrchestrationError">>

\* set_server_votemap_enabled: <<store, controllers, how the call ends>>.
set_server_votemap_enabled(d, c, id, value, store) ==
    CASE ~d[id].present -> <<d, c, "OrchestrationError">>
      [] d[id].wp = NoValue -> <<d, c, "OrchestrationError">>
      [] d[id].enable = value -> <<d, c, "ok">>
      [] ~c[id].running -> <<d, c, "KeyError">>
      [] value /\ c[id].wp = NoValue -> <<d, c, "ValueError">>
      [] OTHER ->
            LET c1 == [c EXCEPT ![id].enabled = enabled_setter(@, c[id].wp, value)] IN
            IF store = "ok" THEN <<[d EXCEPT ![id].enable = value], c1, "ok">>
            ELSE <<d, c1, "OrchestrationError">>

\* set_server_votemap_enabled, lines 190-199: the second element of the
\* tuple a call that succeeds returns.  guild_server is the record that was
\* read, with enable_votemap assigned at line 192 when it differed; line 199
\* compares it to `enabled` after that.
set_server_votemap_enabled_updated(d, id, value) ==
    LET guild_server == IF d[id].enable # value THEN [d[id] EXCEPT !.enable = value]
                        ELSE d[id]
    IN  guild_server.enable # value

orchEnv == <<procVars, flagVars, queueVars, clientVars, handled, cancel_sent, ctlVars,
             cacheVars, selVars, apiVars, gen, moreVars>>

\* Orchestrator.run: a controller task for every server of the store; each
\* registers its controller before its first await.
OrchestratorRun ==
    /\ orch_pc = "new"
    /\ orch_pc' = "running"
    /\ server_controllers' =
          [id \in ServerIds |-> IF db[id].present THEN start_controller(db[id])
                                ELSE NoController]
    /\ UNCHANGED <<db, orch_result, orchEnv>>

\* _run_server_controller after server_controller.run() has returned.
ServerControllerEnded ==
    /\ \E id \in ServerIds :
          /\ server_controllers[id].running
          /\ server_controllers' = [server_controllers EXCEPT ![id] = NoController]
    /\ UNCHANGED <<db, orch_pc, orch_result, orchEnv>>

\* The bot calls add_guild_server: the new record has an id of its own.
AddGuildServer ==
    /\ orch_pc = "running"
    /\ \E id \in ServerIds, health \in HealthOutcomes, store \in StoreOutcomes :
          /\ ~db[id].present
          /\ LET r == add_guild_server(db, id, health, store) IN
                /\ db' = r[1]
                /\ orch_result' = [op |-> "add", server |-> id, arg |-> health,
                                   value |-> FALSE, store |-> store, outcome |-> r[2],
                                   updated |-> FALSE, n |-> 1 - orch_result.n]
    /\ UNCHANGED <<server_controllers, orch_pc, orchEnv>>

\* The bot calls remove_guild_server.
RemoveGuildServer ==
    /\ orch_pc = "running"
    /\ \E id \in ServerIds, store \in StoreOutcomes :
          LET r == remove_guild_server(db, id, store) IN
            /\ db' = r[1]
            /\ orch_result' = [op |-> "remove", server |-> id, arg |-> "none",
                               value |-> FALSE, store |-> store, outcome |-> r[2],
                               updated |-> FALSE, n |-> 1 - orch_result.n]
    /\ UNCHANGED <<server_controllers, orch_pc, orchEnv>>

\* The bot calls upload_server_votemap_settings.
UploadServerVotemapSettings ==
    /\ orch_pc = "running"
    /\ \E id \in ServerIds, file \in SettingsFiles, store \in StoreOutcomes :
          LET r == upload_server_votemap_settings(db, server_controllers, id, file, store) IN
            /\ db' = r[1]
            /\ server_controllers' = r[2]
            /\ orch_result' = [op |-> "upload", server |-> id, arg |-> file,
                               value |-> FALSE, store |-> store, outcome |-> r[3],
                               updated |-> FALSE, n |-> 1 - orch_result.n]
    /\ UNCHANGED <<orch_pc, orchEnv>>

\* The bot calls set_server_votemap_enabled.
SetServerVotemapEnabled ==
    /\ orch_pc = "running"
    /\ \E id \in ServerIds, value \in BOOLEAN, store \in StoreOutcomes :
          LET r == set_server_votemap_enabled(db, server_controllers, id, value, store) IN
            /\ db' = r[1]
            /\ server_controllers' = r[2]
            /\ orch_result' = [op |-> "set_enabled", server |-> id, arg |-> "none",
                               value |-> value, store |-> store, outcome |-> r[3],
                               updated |-> r[3] = "ok" /\
                                   set_server_votemap_enabled_updated(db, id, value),
                               n |-> 1 - orch_result.n]
    /\ UNCHANGED <<orch_pc, orchEnv>>

\* The GuildServer records the store can hold when the orchestrator starts:
\* the votemap is enabled only on a server with settings.
StoredRecords ==
    {NoRecord} \cup {r \in [present : {TRUE}, wp : WeightingValues, enable : BOOLEAN] :
                        r.enable => r.wp # NoValue}

(* ------------------------------ ApiClient ------------------------------ *)
\* The statuses a response of the server can have.
Statuses == {200, 401, 404, 500, 503}

\* Fault: the last attempt is taken to be the one before it.
is_skip_retry_one_short(attempt, response_status) ==
    \/ attempt + 1 >= attempts
    \/ response_status < MIN_SERVER_ERROR_STATUS
\* ApiRequestContext._is_skip_retry with JitterRetry(): every method is
\* retried, statuses is empty, retry_all_server_errors is true.
is_skip_retry(attempt, response_status) ==
    IF attempt = attempts THEN TRUE
    ELSE IF response_status >= MIN_SERVER_ERROR_STATUS THEN FALSE
    ELSE TRUE

\* Fault: _make_request does not look at the session.
session_unchecked(s) == TRUE
\* ApiClient._make_request, line 142: `if not self._session`.
session_entered(s) == s = "open"

apiEnv == <<procVars, flagVars, queueVars, clientVars, handled, cancel_sent, ctlVars,
            cacheVars, selVars, orchVars, gen, moreVars>>

\* ApiClient.__aenter__
ApiEnter ==
    /\ session # "open"
    /\ session' = "open"
    /\ UNCHANGED <<req_pc, current_attempt, sent, call_result, apiEnv>>

\* ApiClient.__aexit__ / aclose, once the operations of the context are over.
ApiExit ==
    /\ session = "open"
    /\ req_pc = "idle"
    /\ session' = "exited"
    /\ UNCHANGED <<req_pc, current_attempt, sent, call_result, apiEnv>>

\* An operation (get_status, ...) is called: _call_api, _make_request and
\* _do_request up to the first session.request.
ApiCall ==
    /\ req_pc = "idle"
    /\ sent' = <<>>
    /\ IF session_entered(session)
       THEN /\ req_pc' = "request"
            /\ current_attempt' = 1
            /\ call_result' = "none"
       ELSE /\ req_pc' = "done"
            /\ current_attempt' = 0
            /\ call_result' = "RuntimeError"
    /\ UNCHANGED <<session, apiEnv>>

\* session.request returns a response: it is returned, or retried after a
\* wait.
ApiResponse ==
    /\ req_pc = "request"
    /\ \E response_status \in Statuses :
          /\ sent' = Append(sent, response_status)
          /\ IF is_skip_retry(current_attempt, response_status)
             THEN req_pc' = "done" /\ call_result' = "response"
             ELSE req_pc' = "sleep" /\ call_result' = call_result
    /\ UNCHANGED <<session, current_attempt, apiEnv>>

\* session.request raises: no exception is retried by default.
ApiRequestRaises ==
    /\ req_pc = "request"
    /\ req_pc' = "done"
    /\ call_result' = "exception"
    /\ UNCHANGED <<session, current_attempt, sent, apiEnv>>

\* asyncio.sleep(retry_wait) is over: the next attempt.
ApiRetry ==
    /\ req_pc = "sleep"
    /\ req_pc' = "request"
    /\ current_attempt' = current_attempt + 1
    /\ UNCHANGED <<session, sent, call_result, apiEnv>>

\* The caller has the result and can make its next call.
ApiCallOver ==
    /\ req_pc = "done"
    /\ req_pc' = "idle"
    /\ UNCHANGED <<session, current_attempt, sent, call_result, apiEnv>>

(* ------------------------------- backoff ------------------------------- *)
\* The arguments of backoff(): a positive initial delay, delays that are
\* not negative, a factor from 0 to 2.
BackoffInputs ==
    [initial_delay : 1..MaxDelay, min_delay : 0..MaxDelay, max_delay : 0..MaxDelay,
     factor : 0..2]

\* backoff(...) before its first next().
NewGenerator(in) ==
    [initial_delay |-> in.initial_delay, min_delay |-> in.min_delay,
     max_delay |-> in.max_delay, factor |-> in.factor, pc |-> "first", delay |-> 0,
     yielded |-> <<>>]

\* Fault: the delay grows without regard to max_delay.
backoff_resume_unbounded(g) ==
    [g EXCEPT !.yielded = Append(@, g.delay), !.delay = @ * g.factor]
\* backoff(), lines 35-42 with max_attempts = 0: the generator is resumed
\* after a yield and runs to its next yield.
backoff_resume(g) ==
    IF g.pc = "grow" /\ g.delay < g.max_delay
    THEN [g EXCEPT !.yielded = Append(@, g.delay), !.delay = @ * g.factor]
    ELSE [g EXCEPT !.pc = "max", !.yielded = Append(@, g.max_delay)]

backoffEnv == <<procVars, flagVars, queueVars, clientVars, handled, cancel_sent, ctlVars,
                cacheVars, selVars, orchVars, apiVars, moreVars>>

\* The first next(): random.random() * initial_delay, a value from 0 up to
\* but not initial_delay; then delay = min_delay.
BackoffFirst ==
    /\ gen.pc = "first"
    /\ \E d \in 0..(gen.initial_delay - 1) :
          gen' = [gen EXCEPT !.pc = "grow", !.yielded = <<d>>, !.delay = gen.min_delay]
    /\ UNCHANGED backoffEnv

\* Every later next().
BackoffNext ==
    /\ gen.pc # "first"
    /\ Len(gen.yielded) < MaxYields
    /\ gen' = backoff_resume(gen)
    /\ UNCHANGED backoffEnv

(* ----------------------- Orchestrator task group ----------------------- *)
supEnv == <<procVars, flagVars, queueVars, clientVars, handled, cancel_sent, cacheVars,
            selVars, orchVars, apiVars, gen, dbVars>>

\* TaskGroup._abort(): task.cancel() on every task that is not done.
group_cancels(pc) == pc # "done"

\* Orchestrator.run, lines 68-75: the task of another server's controller
\* (or the bot task) raises; _run_server_controller catches nothing.  The
\* group aborts: the bot task and this server's controller task are
\* cancelled.  The CancelledError reaches ServerController.run where it
\* is suspended: a task that has not started never runs; in
\* TaskGroup.__aexit__ the controller's own group aborts and goes on waiting
\* for its tasks; in the sleep(0) of the finally block run() ends.
OtherTaskRaises ==
    /\ sup.other = "running"
    /\ sup.run = "none"
    /\ LET hit == group_cancels(ctl_pc) IN
       /\ sup' = [sup EXCEPT !.other = "failed", !.bot = "cancelled", !.cancelled = hit]
       /\ IF hit /\ ctl_pc = "group"
          THEN /\ TaskGroupAbort(tg_errors)
               /\ terminator' = IF terminator = "pending" THEN "cancelled" ELSE terminator
               /\ UNCHANGED <<ctl_pc, run_result>>
          ELSE /\ ctl_pc' = IF hit THEN "done" ELSE ctl_pc
               /\ run_result' = IF hit THEN "cancelled" ELSE run_result
               /\ UNCHANGED <<tg_errors, tg_aborting, monitor_pc, terminator>>
    /\ UNCHANGED <<task_group, ended_event, run_errors, stop_event, stopper_pc, stop_wait,
                   supEnv>>

\* This server's controller task has ended with what run() raised: the
\* group aborts, the bot task and the other controllers are cancelled.
ControllerTaskRaises ==
    /\ ctl_pc = "done"
    /\ run_result = "raised"
    /\ sup.other = "running"
    /\ sup.run = "none"
    /\ sup' = [sup EXCEPT !.other = "cancelled", !.bot = "cancelled"]
    /\ UNCHANGED <<ctlVars, supEnv>>

\* `async with self._tg` is left once every task of the group is done: the
\* failures are raised as a group, line 77 is not reached.
OrchestratorRunRaises ==
    /\ sup.run = "none"
    /\ sup.other # "running"
    /\ sup.bot = "cancelled"
    /\ ctl_pc = "done"
    /\ sup' = [sup EXCEPT !.run = "raised"]
    /\ UNCHANGED <<ctlVars, supEnv>>

(* --------------------------- PolebotDatabase --------------------------- *)
\* The coroutines that use the store at the same time.
Ops == {"op1", "op2"}

\* The collection holds no document.
NoDocument == [stored |-> FALSE, v |-> 0, data |-> "none"]

\* No object in the hands of a coroutine.  `saved` is `_v != UNSAVED_SENTINEL`;
\* read_v is the version the object was read at (an observation).
NoObject ==
    [pc |-> "idle", saved |-> FALSE, v |-> 0, data |-> "none", read_v |-> 0,
     outcome |-> "none"]

\* How a call of the collection ends: it returns, or the driver raises.
DriverOutcomes == {"returns", "raises"}

\* Fault: the filter of replace_one has the _id only.
replace_filter_id_only(d, current_version) == d.stored
\* line 126: {"_id": {"$eq": obj.id}, "_v": {"$eq": current_version}}
replace_filter(d, current_version) == d.stored /\ d.v = current_version

\* _EntityRepository.insert: <<collection, object, how the call ends>>.
insert(d, obj, driver) ==
    IF obj.saved THEN <<d, obj, "DatastoreError">>
    ELSE LET obj1 == [obj EXCEPT !.saved = TRUE, !.v = 1] IN
         IF driver = "raises" THEN <<d, obj1, "DatastoreError">>
         ELSE IF d.stored THEN <<d, obj1, "DuplicateKeyError">>
         ELSE <<[stored |-> TRUE, v |-> obj1.v, data |-> obj1.data], obj1, "ok">>

\* _EntityRepository.update: <<collection, object, how the call ends>>.
update(d, obj, driver) ==
    IF ~obj.saved THEN <<d, obj, "DatastoreError">>
    ELSE LET current_version == obj.v
             obj1 == [obj EXCEPT !.v = @ + 1]
         IN  IF driver = "raises" THEN <<d, obj1, "DatastoreError">>
             ELSE IF replace_filter(d, current_version)
             THEN <<[stored |-> TRUE, v |-> obj1.v, data |-> obj1.data], obj1, "ok">>
             ELSE <<d, obj1, "ConcurrencyError">>

dbEnv == <<procVars, flagVars, queueVars, clientVars, handled, cancel_sent, ctlVars,
           cacheVars, selVars, orchVars, apiVars, gen, sup>>

\* A coroutine makes a new object and inserts it (add_guild_server).
DbInsert ==
    /\ \E o \in Ops, driver \in DriverOutcomes :
          /\ ops[o].pc = "idle"
          /\ LET r == insert(doc, [NoObject EXCEPT !.data = o], driver) IN
                /\ doc' = r[1]
                /\ ops' = [ops EXCEPT ![o] = [r[2] EXCEPT !.pc = "done", !.outcome = r[3]]]
    /\ UNCHANGED <<succeeded, dbEnv>>

\* A coroutine reads the document (find_one): the object it gets has the
\* stored version.
DbFindOne ==
    /\ doc.stored
    /\ doc.v < MaxVersion
    /\ \E o \in Ops :
          /\ ops[o].pc = "idle"
          /\ ops' = [ops EXCEPT ![o] = [pc |-> "read", saved |-> TRUE, v |-> doc.v,
                                        data |-> doc.data, read_v |-> doc.v,
                                        outcome |-> "none"]]
    /\ UNCHANGED <<doc, succeeded, dbEnv>>

\* The coroutine changes its object and updates it (orchestrator.py lines
\* 162-165 and 192-193).
DbUpdate ==
    /\ \E o \in Ops, driver \in DriverOutcomes :
          /\ ops[o].pc = "read"
          /\ LET r == update(doc, [ops[o] EXCEPT !.data = o], driver) IN
                /\ doc' = r[1]
                /\ ops' = [ops EXCEPT ![o] = [r[2] EXCEPT !.pc = "done", !.outcome = r[3]]]
                /\ succeeded' = IF r[3] = "ok" THEN succeeded \cup {ops[o].read_v}
                                ELSE succeeded
    /\ UNCHANGED dbEnv

\* The operation is over, its object is dropped.
DbOperationOver ==
    /\ \E o \in Ops :
          /\ ops[o].pc = "done"
          /\ ops' = [ops EXCEPT ![o] = NoObject]
    /\ UNCHANGED <<doc, succeeded, dbEnv>>

(* --------------------------- specifications ---------------------------- *)
InitProgram ==
    /\ enabled = FALSE
    /\ weighting_parameters = NoValue
    /\ cache = [status |-> NoValue, maps |-> FALSE, config |-> FALSE]
    /\ proc_pc = "get"
    /\ cur = NoLog
    /\ status = NoValue
    /\ selection = {}
    /\ saved = {}
    /\ pending = "none"
    /\ exit_reason = "none"
    /\ cancel_sent = FALSE
    /\ queue = <<>>
    /\ unfinished_tasks = 0
    /\ queue_shutdown = FALSE
    /\ whitelist = LayerIds
    /\ client_pc = "connect"
    /\ logs_bundle = <<>>
    /\ last_seen_id = NoId
    /\ delays = NoDelays
    /\ client_exit = "none"
    /\ first_connection = TRUE
    /\ process_exception = "unset"
    /\ dns_failed = "no"
    /\ init_sent = NoId
    /\ frame_handled = FALSE
    /\ nonnull_seen = NoId
    /\ websocket = "none"
    /\ lost_by = "none"
    /\ next_id = 1
    /\ received = <<>>
    /\ handled = <<>>
    /\ item_outcome = "none"
    /\ item_disabled = FALSE
    /\ hist_before = <<>>
    /\ api_called = FALSE
    /\ set_calls = <<>>
    /\ restore_result = "none"
    /\ status_calls = 0
    /\ ctl_pc = "idle"
    /\ task_group = FALSE
    /\ ended_event = TRUE
    /\ run_result = "none"
    /\ run_errors = {}
    /\ tg_aborting = FALSE
    /\ tg_errors = {}
    /\ stop_event = FALSE
    /\ monitor_pc = "none"
    /\ terminator = "none"
    /\ stopper_pc = "idle"
    /\ stop_wait = FALSE
    /\ now = 0
    /\ entries = [m \in Methods |-> NoItem]
    /\ cur_call = NoCall
    /\ invocations = 0
    /\ returned = [m \in Methods |-> NoReturn]
    /\ last_call = [method |-> "none", start |-> 0, value |-> 0, invoked |-> FALSE,
                    raised |-> FALSE, prior |-> NoReturn]
    /\ server_controllers = [id \in ServerIds |-> NoController]
    /\ orch_pc = "new"
    /\ orch_result = [op |-> "none", server |-> "s1", arg |-> "none", value |-> FALSE,
                      store |-> "ok", outcome |-> "none", updated |-> FALSE, n |-> 0]
    /\ session = "unentered"
    /\ req_pc = "idle"
    /\ current_attempt = 0
    /\ sent = <<>>
    /\ call_result = "none"
    /\ sel_pc = "idle"
    /\ sel_df = {}
    /\ selected_layers = {}
    /\ sel_i = 0
    /\ yielded = <<>>
    /\ sup = [other |-> "running", bot |-> "running", cancelled |-> FALSE, run |-> "none"]
    /\ doc = NoDocument
    /\ ops = [o \in Ops |-> NoObject]
    /\ succeeded = {}

\* AppConfig(): the client retries for ever.
DefaultAttempts == max_attempts = max_websocket_connection_attempts

\* deque(maxlen=10), empty
NewHistory == layer_history = <<>>

\* A store without servers.
EmptyStore == db = [id \in ServerIds |-> NoRecord]

\* A selector for the default votemap configuration.
DefaultSelector ==
    sel_in = [layers |-> Universe, current |-> "W1", w |-> MaxCount, o |-> MaxCount,
                 s |-> MaxCount, excluded |-> {}, same_map |-> TRUE,
                 opposite_sides |-> FALSE, consecutive_offensives |-> TRUE,
                 consecutive_skirmishes |-> FALSE, decay_zero |-> FALSE]

\* The generator run() makes: an initial delay, a minimum below the
\* maximum, a factor above 1.
DefaultBackoff ==
    gen = NewGenerator([initial_delay |-> MaxDelay, min_delay |-> 1, max_delay |-> MaxDelay,
                        factor |-> 2])

\* The processor starts with no history, the rest with their defaults.
Init ==
    /\ InitProgram
    /\ DefaultAttempts
    /\ NewHistory
    /\ EmptyStore
    /\ DefaultSelector
    /\ DefaultBackoff

InitSelector ==
    /\ InitProgram
    /\ DefaultAttempts
    /\ NewHistory
    /\ EmptyStore
    /\ DefaultBackoff
    /\ sel_in \in SelectorInputs

\* A history of n layers, the k newest of them "A".
HistoryOf(n, k) == [i \in 1..n |-> IF i <= k THEN "A" ELSE "B"]

\* Layer histories the processor has after earlier matches: none, or almost
\* or wholly as many as the deque holds.
HistoryInputs ==
    {<<>>} \cup UNION {{HistoryOf(n, k) : k \in {0, 1, n - 1}} :
                          n \in (LAYER_HISTORY_MAXLEN - 2)..LAYER_HISTORY_MAXLEN}

\* A processor that has run for some matches.
InitHistory ==
    /\ InitProgram
    /\ DefaultAttempts
    /\ layer_history \in HistoryInputs
    /\ EmptyStore
    /\ DefaultSelector
    /\ DefaultBackoff

\* The steps of VotemapProcessor.run between two awaits.
ProcessorSteps ==
    \/ ReceiveMessage
    \/ SleepDisabledDone
    \/ GetServerStatusDone
    \/ GetServerMapsDone
    \/ GetVotemapConfigDone
    \/ GetVotemapWhitelistDone
    \/ SavedWhitelistDone
    \/ SetSelectionDone
    \/ SleepADone
    \/ ResetDone
    \/ SleepBDone
    \/ RestoreDone
    \/ EndStatusDone

ProcessorNext ==
    \/ ProcessorSteps
    \/ CancelProcessor
    \/ CacheExpire

\* The steps of CRCONLogStreamClient.run between two awaits.
ClientSteps ==
    \/ ClientConnect
    \/ ClientReceiveLogs
    \/ ClientReceiveMalformed
    \/ ClientConnectionLost
    \/ ClientSleepDone
    \/ ClientPutResume

ClientNext ==
    \/ ClientSteps
    \/ CancelClient

\* A producer that stays connected until it is cancelled.
ProducerNext ==
    \/ ClientConnect
    \/ ClientReceiveLogs
    \/ ClientPutResume

\* The server controller as the orchestrator drives it: the processor, the
\* producer of its queue, the two flags set from outside.  The reconnecting
\* client is followed in SpecClient.
Next ==
    \/ ProcessorNext
    \/ ProducerNext
    \/ CancelClient
    \/ SetVotemapEnabled
    \/ SetWeightingParameters

Spec == Init /\ [][Next]_vars

\* The log-stream client on a server that can also send frames whose
\* last_seen_id is null, with a consumer that only takes the logs off the
\* queue (the processor left disabled).
NextClient ==
    \/ ClientNext
    \/ ClientReceiveLogsNoId
    \/ ClientReceiveError
    \/ ReceiveMessage
    \/ SleepDisabledDone

SpecClient == Init /\ [][NextClient]_vars

\* The client under every max_websocket_connection_attempts up to
\* MaxAttempts.
InitAttempts ==
    /\ InitProgram
    /\ max_attempts \in 0..MaxAttempts
    /\ NewHistory
    /\ EmptyStore
    /\ DefaultSelector
    /\ DefaultBackoff

SpecAttempts == InitAttempts /\ [][NextClient]_vars

\* ServerController.run with its three tasks, configured before it is run
\* and stopped through the stop event.
ControllerConfigure ==
    /\ ctl_pc = "idle"
    /\ SetWeightingParameters \/ SetVotemapEnabled

ControllerTasks ==
    /\ ctl_pc = "group"
    /\ ProcessorSteps \/ CacheExpire \/ ClientSteps

NextController ==
    \/ ControllerConfigure
    \/ ControllerRun
    \/ ControllerTasks
    \/ GroupCancelProcessor
    \/ GroupCancelClient
    \/ ClientTaskFailed
    \/ SetStopEvent
    \/ MonitorStopEvent
    \/ ForceTerminateTaskGroup
    \/ TaskGroupExit
    \/ RunReturns

SpecController == Init /\ [][NextController]_vars

\* ServerController.run stopped through stop(), called at any moment; the
\* client stays connected once it is.
StopTasks ==
    /\ ctl_pc = "group"
    /\ ProcessorSteps \/ CacheExpire \/ ProducerNext

NextStop ==
    \/ ControllerConfigure
    \/ ControllerRun
    \/ StopTasks
    \/ GroupCancelProcessor
    \/ GroupCancelClient
    \/ ClientTaskFailed
    \/ ForceTerminateTaskGroup
    \/ TaskGroupExit
    \/ RunReturns
    \/ Stop
    \/ StopWaitDone

SpecStop == Init /\ [][NextStop]_vars

\* One server's controller under the Orchestrator's task group, next to the
\* bot task and the controllers of the other servers.
NextSupervisor ==
    \/ ControllerConfigure
    \/ ControllerRun
    \/ StopTasks
    \/ GroupCancelProcessor
    \/ GroupCancelClient
    \/ ClientTaskFailed
    \/ TaskGroupExit
    \/ RunReturns
    \/ OtherTaskRaises
    \/ ControllerTaskRaises
    \/ OrchestratorRunRaises

SpecSupervisor == Init /\ [][NextSupervisor]_vars

\* The servers collection used by two coroutines at a time.
NextDatabase ==
    \/ DbInsert
    \/ DbFindOne
    \/ DbUpdate
    \/ DbOperationOver

SpecDatabase == Init /\ [][NextDatabase]_vars

\* Calls of ttl_cached methods, one after the other, while time passes.
NextCache ==
    \/ CacheTick
    \/ CallBegin
    \/ WrappedReturns
    \/ WrappedRaises

SpecCache == Init /\ [][NextCache]_vars

\* MapSelector.get_selection on every selector of SelectorInputs.
NextSelector ==
    \/ GetSelection
    \/ SelectLayer
    \/ SelectGroupDone

SpecSelector == InitSelector /\ [][NextSelector]_vars

\* A store left by earlier runs.
InitOrchestrator ==
    /\ InitProgram
    /\ DefaultAttempts
    /\ NewHistory
    /\ db \in [ServerIds -> StoredRecords]
    /\ DefaultSelector
    /\ DefaultBackoff

\* A generator for every choice of arguments.
InitBackoff ==
    /\ InitProgram
    /\ DefaultAttempts
    /\ NewHistory
    /\ EmptyStore
    /\ DefaultSelector
    /\ gen \in {NewGenerator(in) : in \in BackoffInputs}

NextBackoff ==
    \/ BackoffFirst
    \/ BackoffNext

SpecBackoff == InitBackoff /\ [][NextBackoff]_vars

\* The orchestrator serving the bot's commands.
NextOrchestrator ==
    \/ OrchestratorRun
    \/ ServerControllerEnded
    \/ AddGuildServer
    \/ RemoveGuildServer
    \/ UploadServerVotemapSettings
    \/ SetServerVotemapEnabled

SpecOrchestrator == InitOrchestrator /\ [][NextOrchestrator]_vars

\* An ApiClient and the operations called on it.
NextApi ==
    \/ ApiEnter
    \/ ApiExit
    \/ ApiCall
    \/ ApiResponse
    \/ ApiRequestRaises
    \/ ApiRetry
    \/ ApiCallOver

SpecApi == Init /\ [][NextApi]_vars

\* The processor driven through its own properties, on a queue that is fed
\* by a producer and can be shut down (the processor's tests).
NextProcessor ==
    \/ ProcessorNext
    \/ ReceiveShutDown
    \/ ProducerNext
    \/ ProcessorSetEnabled
    \/ ProcessorSetWeightingParams
    \/ QueueShutdown

SpecProcessor == Init /\ [][NextProcessor]_vars

\* The processor handling events on top of a layer history.
NextHistory ==
    \/ ProcessorSteps
    \/ CacheExpire
    \/ ProducerNext
    \/ ProcessorSetEnabled
    \/ ProcessorSetWeightingParams

SpecHistory == InitHistory /\ [][NextHistory]_vars

(* ------------------------------ properties ----------------------------- *)
IsPrefix(a, b) == Len(a) <= Len(b) /\ a = SubSeq(b, 1, Len(a))

\* The handler of the item in `cur` is over (it returned, logged an
\* exception, or an exception left it).
ItemOver == item_outcome \in {"ok", "error", "raised"}

\* C1: once an invocation of _set_votemap_selection that issued its first
\* set_votemap_whitelist call is over, set_votemap_whitelist has been called
\* exactly twice, first with the selection and last with the saved whitelist,
\* and if the last call succeeded the upstream whitelist is the saved one.
C1_WhitelistSetTwice ==
    (ItemOver /\ set_calls # <<>>) =>
        /\ set_calls = <<selection, saved>>
        /\ restore_result = "ok" => whitelist = saved

\* C2: when the processor task has ended by cancellation of a handler that
\* had issued set_votemap_whitelist(selection), the restore call
\* set_votemap_whitelist(saved) was issued as well.
C2_RestoreIssuedWhenCancelled ==
    (exit_reason = "cancelled" /\ item_outcome = "raised" /\ set_calls # <<>>) =>
        (Len(set_calls) = 2 /\ set_calls[2] = saved)

\* C3: a match_start event dequeued while enabled is false leads to no API
\* call and no set_votemap_whitelist; its handler only sleeps, marks the item
\* done without an error, and the loop is back at queue.get() (unless the
\* task is cancelled).
C3_DisabledMatchStartIgnored ==
    (item_disabled /\ cur.action = match_start) =>
        /\ ~api_called
        /\ set_calls = <<>>
        /\ item_outcome \in {"handling", "ok", "raised"}
        /\ item_outcome = "handling" =>
              (proc_pc = "sleep_disabled" /\ unfinished_tasks = Len(queue) + 1)
        /\ ItemOver => unfinished_tasks = Len(queue)
        /\ item_outcome = "ok" => (proc_pc = "get" \/ exit_reason = "cancelled")
        /\ item_outcome = "raised" => exit_reason = "cancelled"

C3_Witness ==
    /\ item_disabled
    /\ cur.action = match_start
    /\ item_outcome = "ok"
    /\ proc_pc = "get"
    /\ queue # <<>>
    /\ unfinished_tasks = Len(queue)

\* C4 (as the code has it): a match_end event dequeued while enabled is true
\* takes the server status (cached for 10 s, else fetched) and, if that
\* succeeds, prepends status.map.id to the layer history; dequeued while
\* enabled is false it is ignored: no API call, the history stays as it was.
C4_MatchEndHistory ==
    (cur.action = match_end /\ ItemOver) =>
        IF item_disabled
        THEN ~api_called /\ item_outcome # "error" /\ layer_history = hist_before
        ELSE IF item_outcome = "ok"
        THEN status \in LayerIds /\ layer_history = appendleft(hist_before, status)
        ELSE layer_history = hist_before

\* A match_end ignored while disabled, after an earlier one was recorded.
C4_Witness ==
    /\ cur.action = match_end
    /\ item_disabled
    /\ item_outcome = "ok"
    /\ layer_history # <<>>
    /\ layer_history = hist_before

\* C4 as stated: every match_end event that was handled has put
\* status.map.id at the head of the layer history, enabled or not.
C4_MatchEndAlwaysRecorded ==
    (cur.action = match_end /\ item_outcome = "ok") =>
        (status \in LayerIds /\ layer_history = appendleft(hist_before, status))

\* C5: through the processor's own setters, enabled implies that weighting
\* parameters are set; enabling without parameters leaves enabled false and
\* assigning None as parameters disables.
C5_EnabledImpliesParameters ==
    /\ enabled => weighting_parameters # NoValue
    /\ weighting_parameters = NoValue =>
          enabled_setter(enabled, weighting_parameters, TRUE) = FALSE
    /\ weighting_params_setter(enabled, weighting_parameters, NoValue) = <<FALSE, NoValue>>

C5_Witness == enabled /\ weighting_parameters = "WP" /\ handled # <<>>

\* C6: through the controller's setters, votemap_enabled is never true while
\* weighting_parameters is None.
C6_ControllerEnableInvariant == ~(enabled /\ weighting_parameters = NoValue)

\* C7: run() ends only by cancellation or queue shutdown; an exception that
\* is neither is logged by the handler and the loop is back at queue.get().
C7_ErrorsLoggedLoopContinues ==
    /\ exit_reason \in {"none", "cancelled", "shutdown"}
    /\ (proc_pc = "done") <=> (exit_reason # "none")
    /\ item_outcome = "error" => (proc_pc = "get" \/ exit_reason \in {"cancelled", "shutdown"})
    /\ item_outcome = "raised" => exit_reason \in {"cancelled", "shutdown"}

\* After a logged error the loop waits at queue.get() with a log ready.
C7_Witness ==
    /\ item_outcome = "error"
    /\ proc_pc = "get"
    /\ exit_reason = "none"
    /\ queue # <<>>

\* C8: the queue's unfinished-task count is the number of items in the queue
\* plus the one being handled: each item taken is followed by one task_done.
C8_OneTaskDonePerItem ==
    unfinished_tasks = Len(queue) + (IF item_outcome = "handling" THEN 1 ELSE 0)

\* A handler left by cancellation, with logs still in the queue.
C8_Witness ==
    /\ item_outcome = "raised"
    /\ proc_pc = "done"
    /\ queue # <<>>
    /\ unfinished_tasks = Len(queue)

\* C9: the logs handled so far, followed by the logs in the queue, are a
\* prefix of the logs of the error-free frames in the order received.
C9_HandledInReceiveOrder == IsPrefix(handled \o queue, received)

\* All events handled, with a reconnect on the way.
C9_Witness == Len(handled) = MaxEvents /\ delays # NoDelays /\ Len(received) = MaxEvents

\* C10: the queue never holds more than its capacity, and unless the client
\* task was cancelled every log received is handled, in the queue, or held
\* by the client blocked in put.
C10_NoLogDiscarded ==
    /\ Len(queue) <= QueueCap
    /\ logs_bundle # <<>> => client_pc = "put"
    /\ client_exit # "cancelled" => handled \o queue \o logs_bundle = received

\* The client blocked in put on a full queue.
C10_Witness == client_pc = "put" /\ Len(queue) = QueueCap /\ logs_bundle # <<>>

\* C11: the stored last_seen_id is the last_seen_id of the most recent
\* error-free frame that carried a non-null value (so it never regresses),
\* and it is what the init message of the next connection carries.
C11_StoredIdIsLastNonNull ==
    /\ last_seen_id = nonnull_seen
    /\ (client_pc = "recv" /\ ~frame_handled) => init_sent = nonnull_seen

\* The steps the controller's tasks and run() take by themselves (neither a
\* stop request nor a configuration from outside).
ControllerProgress ==
    \/ ControllerTasks
    \/ GroupCancelProcessor
    \/ GroupCancelClient
    \/ ClientTaskFailed
    \/ MonitorStopEvent
    \/ ForceTerminateTaskGroup
    \/ TaskGroupExit
    \/ RunReturns

\* run() was entered and none of these steps is possible any more.
ControllerQuiescent == ctl_pc # "idle" /\ ~ENABLED ControllerProgress

\* C12: a DNS failure on the first connection attempt ends the client's
\* run() with that error, no other attempt follows (a client that is done
\* connects no more), and ServerController.run() comes to its end raising
\* that failure.
C12_FirstDnsFailureFatal ==
    dns_failed = "first" =>
        /\ client_pc = "done"
        /\ client_exit = "dns_error"
        /\ ctl_pc = "done" => (run_result = "raised" /\ run_errors = {"dns_error"})
        /\ ControllerQuiescent => ctl_pc = "done"

C12_Witness ==
    dns_failed = "first" /\ ctl_pc = "done" /\ run_result = "raised" /\ exit_reason = "cancelled"

\* C13: after the first connection attempt a DNS failure is transient, the
\* client retries: run() does not end with the DNS error once the client
\* has had a connection and is reconnecting.
C13_LaterDnsFailureRetried == delays # NoDelays => client_exit # "dns_error"

\* C14: after a connection on which a frame was received and handled the
\* backoff generator is fresh, so the delay slept before the next reconnect
\* is the first one it yields.
C14_BackoffResetAfterReceive == (client_pc = "sleep" /\ frame_handled) => delays = 1

\* C15: when the client's run() has ended with a failure, the controller
\* comes to its end: the processor and the monitor are cancelled, the
\* run-ended event is set and run() raises that failure.
C15_ClientFailureEndsRun ==
    (client_exit \in ClientFailures /\ ControllerQuiescent) =>
        /\ ctl_pc = "done"
        /\ run_result = "raised"
        /\ run_errors = {client_exit}
        /\ ended_event
        /\ exit_reason = "cancelled"
        /\ stop_event \/ monitor_pc = "cancelled"

\* C16: when the stop event is set (and the client has not failed), the
\* controller comes to its end: the processor and the client are cancelled,
\* the run-ended event is set and run() returns without raising.
C16_StopEventEndsRun ==
    (stop_event /\ client_exit \notin ClientFailures /\ ControllerQuiescent) =>
        /\ ctl_pc = "done"
        /\ run_result = "returned"
        /\ ended_event
        /\ exit_reason = "cancelled"
        /\ client_exit = "cancelled"

\* A task of the controller's group exists and is not done.
TasksRunning ==
    /\ ctl_pc = "group"
    /\ proc_pc # "done" \/ client_pc # "done" \/ monitor_pc = "wait"

\* C17: stop(wait=True) returns only in a state where no task of the
\* controller is running, and it returns at once when the controller is not
\* running.
C17_StopWaitsForTasks ==
    [][/\ (stopper_pc # "returned" /\ stopper_pc' = "returned" /\ stop_wait')
            => ~TasksRunning'
       /\ (stopper_pc = "idle" /\ stopper_pc' # "idle" /\ stop_wait' /\ ctl_pc # "group")
            => stopper_pc' = "returned"]_vars

C17_Witness ==
    /\ stopper_pc = "returned"
    /\ stop_wait
    /\ terminator = "raised"
    /\ tg_errors = {"terminate"}
    /\ ctl_pc = "finally"

\* C18 (as corrected): each of the two whitelist reads of a
\* Selection-and-Apply is an awaited get_votemap_whitelist call whose result
\* is the server's whitelist of that moment (the catalog is filtered by it,
\* the saved copy is it), and get_status, get_maps and get_votemap_config
\* are issued only while the cache holds no unexpired result of theirs.
C18_WhitelistLiveFetchesCached ==
    [][/\ (proc_pc' = "save_whitelist" /\ proc_pc # proc_pc')
            => (proc_pc = "gen_whitelist" /\ selection' \subseteq whitelist)
       /\ (proc_pc' = "set_selection" /\ proc_pc # proc_pc')
            => (proc_pc = "save_whitelist" /\ saved' = whitelist)
       /\ (proc_pc' \in {"gen_status", "end_status"} /\ proc_pc # proc_pc')
            => cache.status = NoValue
       /\ (proc_pc' = "gen_maps" /\ proc_pc # proc_pc') => ~cache.maps
       /\ (proc_pc' = "gen_config" /\ proc_pc # proc_pc') => ~cache.config]_vars

\* A second Selection-and-Apply that finds the status in the cache and reads
\* a whitelist the first one left changed.
C18_Witness ==
    /\ proc_pc = "set_selection"
    /\ Len(handled) >= 2
    /\ status_calls = 1
    /\ cache.status # NoValue
    /\ saved # LayerIds

\* C18 (as stated): get_status is invoked at most once per 10 s, the time
\* its result is cached for.
C18_StatusFetchedOncePerPeriod == status_calls <= 1

\* C19: a call of a ttl_cached method invokes the wrapped function exactly
\* when the function has not returned a value yet or returned its last one
\* at least the time to live before the call; a call that does not invoke
\* returns that last value, and a call that invokes returns a new one.
C19_InvokedOnlyWithoutUnexpiredEntry ==
    last_call.method # "none" =>
        LET prior == last_call.prior IN
        /\ last_call.invoked <=>
              (prior = NoReturn \/ last_call.start >= prior.at + TimeToLive)
        /\ ~last_call.invoked => last_call.value = prior.value
        /\ (last_call.invoked /\ ~last_call.raised) => last_call.value # prior.value

\* A call of the coroutine method that invoked once more after its entry
\* had expired, and a later call took the new value from the cache.
C19_Witness ==
    /\ last_call.method = "long_ttl_async"
    /\ ~last_call.invoked
    /\ last_call.start > last_call.prior.at
    /\ last_call.prior.at >= TimeToLive
    /\ invocations >= 2

\* The place of a layer's game mode in the order warfare, offensive, skirmish.
GroupRank(l) ==
    CASE game_mode(l) = "warfare" -> 1
      [] game_mode(l) = "offensive" -> 2
      [] OTHER -> 3

YieldedOf(rank) == {i \in DOMAIN yielded : GroupRank(yielded[i]) = rank}

\* C20: a selection that get_selection returns has at most w warfare, o
\* offensive and s skirmish ids, all from the catalog the selector was given,
\* none of them the current layer, grouped warfare, offensive, skirmish.
C20_SelectionWithinCountsAndCatalog ==
    sel_pc = "done" =>
        /\ Cardinality(YieldedOf(1)) <= sel_in.w
        /\ Cardinality(YieldedOf(2)) <= sel_in.o
        /\ Cardinality(YieldedOf(3)) <= sel_in.s
        /\ \A i \in DOMAIN yielded : yielded[i] \in sel_in.layers /\ yielded[i] # sel_in.current
        /\ \A i, j \in DOMAIN yielded : i < j => GroupRank(yielded[i]) <= GroupRank(yielded[j])

\* Two warfare layers could be drawn and one was asked for; the current
\* layer is in the catalog; all three groups gave an id.
C20_Witness ==
    /\ sel_pc = "done"
    /\ sel_in.layers = Universe
    /\ sel_in.current = "W1"
    /\ sel_in.w = 1
    /\ sel_in.excluded = {}
    /\ yielded = <<"W2", "O1", "S1">>

\* The step ends the handler of a match_end event that was dequeued while
\* the processor was enabled, without an error.
MatchEndRecorded ==
    /\ cur'.action = match_end
    /\ ~item_disabled'
    /\ item_outcome' = "ok"
    /\ handled' # handled \/ item_outcome = "handling"

\* C21: the layer history never holds more than 10 ids; a step that ends
\* the handling of a match_end event puts the status.map.id it read at the
\* head and keeps the 9 newest of the ids before it, in their order; no
\* other step (match_start, any other action, a setter) changes the history.
C21_HistoryBoundedNewestFirst ==
    [][/\ Len(layer_history') <= LAYER_HISTORY_MAXLEN
       /\ IF MatchEndRecorded
          THEN /\ status' \in LayerIds
               /\ layer_history' =
                      <<status'>> \o SubSeq(layer_history, 1,
                                            Min(Len(layer_history), LAYER_HISTORY_MAXLEN - 1))
          ELSE layer_history' = layer_history]_vars

\* An 11th id was recorded: the oldest one ("B") is gone.
C21_Witness ==
    /\ cur.action = match_end
    /\ item_outcome = "ok"
    /\ Len(hist_before) = LAYER_HISTORY_MAXLEN
    /\ hist_before[LAYER_HISTORY_MAXLEN] = "B"
    /\ Len(layer_history) = LAYER_HISTORY_MAXLEN
    /\ layer_history[LAYER_HISTORY_MAXLEN] = "A"
    /\ layer_history[1] = status

\* The step is an operation the bot asked the orchestrator for.
OrchStep == orch_result'.n # orch_result.n

\* C22: upload_server_votemap_settings (with a valid file) and
\* set_server_votemap_enabled (on a server with settings), applied to a
\* persisted server while the store works, succeed and update the record,
\* whether or not the server has a controller in memory; a controller that
\* exists gets the change and stays registered.
C22_SettingsApplyWithoutController ==
    [][LET r == orch_result'
           id == orch_result'.server
       IN  (/\ OrchStep
            /\ r.op \in {"upload", "set_enabled"}
            /\ db[id].present
            /\ r.store = "ok"
            /\ r.op = "upload" => r.arg # "invalid"
            /\ r.op = "set_enabled" => db[id].wp # NoValue)
           => /\ r.outcome = "ok"
              /\ r.op = "upload" => db'[id].wp = r.arg
              /\ r.op = "set_enabled" => db'[id].enable = r.value
              /\ server_controllers'[id].running = server_controllers[id].running
              /\ server_controllers[id].running =>
                    /\ r.op = "upload" => server_controllers'[id].wp = r.arg
                    /\ (r.op = "set_enabled" /\ db[id].enable # r.value) =>
                          server_controllers'[id].enabled = r.value]_vars

\* C23: add_guild_server changes the store only by inserting the new record
\* after a health check that succeeded; a health check that fails with an
\* API error, a DNS error or a content-type error ends the call with
\* OrchestrationError, and no failed health check leaves a record.
C23_AddPersistsOnlyAfterHealthCheck ==
    [][(OrchStep /\ orch_result'.op = "add") =>
          LET r == orch_result' IN
          /\ db' # db =>
                /\ r.arg = "ok"
                /\ r.outcome = "ok"
                /\ db'[r.server].present
                /\ \A id \in ServerIds \ {r.server} : db'[id] = db[id]
          /\ r.arg \in {"api_error", "dns_error", "content_type"} =>
                r.outcome = "OrchestrationError"
          /\ r.arg # "ok" => db' = db
          /\ r.outcome = "ok" => db'[r.server].present]_vars

\* A server was added after a health check that failed on DNS, and nothing
\* was persisted for it; the other server was added before.
C23_Witness ==
    /\ orch_result.op = "add"
    /\ orch_result.arg = "dns_error"
    /\ orch_result.outcome = "OrchestrationError"
    /\ ~db[orch_result.server].present
    /\ \E id \in ServerIds : db[id].present /\ ~server_controllers[id].running

\* C24: one API request sends at most 3 HTTP requests; a response with a
\* status of 500 or above is followed by a wait and another request while
\* attempts remain; a response with a status below 500 is returned at once;
\* the response of the third attempt is returned whatever its status.
C24_AtMostThreeRequests ==
    /\ Len(sent) <= 3
    /\ \A i \in 1..(Len(sent) - 1) : sent[i] >= 500
    /\ req_pc = "sleep" => (sent # <<>> /\ sent[Len(sent)] >= 500 /\ Len(sent) < 3)
    /\ (sent # <<>> /\ req_pc \in {"done", "idle"} /\ call_result = "response") =>
          (sent[Len(sent)] < 500 \/ Len(sent) = 3)
    /\ (sent # <<>> /\ req_pc = "request") => sent[Len(sent)] >= 500
    /\ (sent # <<>> /\ sent[Len(sent)] < 500) => call_result = "response"
    /\ Len(sent) = 3 => call_result = "response"

\* Two responses with a server error were retried and the third, another
\* server error, was returned.
C24_Witness ==
    /\ req_pc = "done"
    /\ call_result = "response"
    /\ sent = <<500, 503, 500>>

\* C26: an operation called while the client's context is not entered ends
\* with RuntimeError and sends nothing; a request is sent, and a response
\* returned, only while the context is entered.
C26_NotEnteredRaises ==
    [][/\ (req_pc = "idle" /\ req_pc' # "idle" /\ session # "open") =>
             (req_pc' = "done" /\ call_result' = "RuntimeError" /\ sent' = <<>>)
       /\ (sent' # sent /\ sent' # <<>>) => (session = "open" /\ session' = "open")
       /\ (call_result' = "response" /\ call_result # "response") => session = "open"
       /\ (req_pc \in {"request", "sleep"}) => session = "open"]_vars

\* An operation called after the context was left has raised.
C26_Witness ==
    /\ session = "exited"
    /\ req_pc = "done"
    /\ call_result = "RuntimeError"
    /\ sent = <<>>

RECURSIVE Power(_, _)
Power(b, e) == IF e = 0 THEN 1 ELSE b * Power(b, e - 1)

\* The k-th delay of the growing phase (k from 0).
GrowthDelay(k) == gen.min_delay * Power(gen.factor, k)

\* C25: the first delay a backoff generator yields is in [0, initial_delay);
\* the delays after it are min_delay, min_delay*factor, min_delay*factor^2,
\* ... as long as these are below max_delay and max_delay from then on; they
\* never exceed max_delay and, for factor >= 1, never decrease.
C25_BackoffSequence ==
    LET y == gen.yielded IN
    /\ y # <<>> => (0 <= y[1] /\ y[1] < gen.initial_delay)
    /\ \A i \in 2..Len(y) :
          /\ y[i] <= gen.max_delay
          /\ y[i] = IF \A k \in 0..(i - 2) : GrowthDelay(k) < gen.max_delay
                    THEN GrowthDelay(i - 2)
                    ELSE gen.max_delay
    /\ gen.factor >= 1 => \A i \in 2..(Len(y) - 1) : y[i] <= y[i + 1]

\* The delays grew from min_delay and reached max_delay.
C25_Witness ==
    /\ gen.min_delay = 1
    /\ gen.factor = 2
    /\ gen.max_delay = 3
    /\ Len(gen.yielded) = 4
    /\ SubSeq(gen.yielded, 2, 4) = <<1, 2, 3>>

C29_AttemptsPerChain ==
    [][/\ max_attempts > 0 => delays' <= max_attempts
       /\ (lost_by = "none" /\ lost_by' # "none") =>
             IF max_attempts > 0 /\ delays = max_attempts
             THEN /\ client_pc' = "done"
                  /\ client_exit' = "error"
                  /\ lost_by' \in {"closed", "error_frame"}
                  /\ delays' = delays
             ELSE /\ client_pc' = "sleep"
                  /\ client_exit' = client_exit
                  /\ max_attempts > 0 =>
                        delays' = (IF delays = NoDelays THEN 0 ELSE delays) + 1]_vars

\* With n = MaxAttempts the run has ended on the failure after n delays.
C29_Witness ==
    /\ max_attempts = MaxAttempts
    /\ delays = MaxAttempts
    /\ client_exit = "error"
    /\ lost_by # "none"

\* C30: cancelling run() while its websocket is open (in recv, in a put, in
\* the sleep before a reconnect) closes the websocket and ends run() as
\* cancelled; a run() that has ended connects no more.
C30_CancelClosesWebsocket ==
    [][/\ (client_exit' = "cancelled" /\ client_exit # "cancelled" /\ websocket = "open") =>
             (websocket' = "closed" /\ client_pc' = "done")
       /\ client_pc = "done" =>
             (client_pc' = "done" /\ websocket' = websocket /\ client_exit' = client_exit)]_vars

\* run() was cancelled in the sleep before a reconnect.
C30_Witness ==
    /\ client_exit = "cancelled"
    /\ lost_by = "closed"
    /\ websocket = "closed"

\* C28: one Selection-and-Apply at a time.  A log is taken off the queue
\* only when the handler of the previous one is over: if that handler had
\* issued set_votemap_whitelist(selection), its restore call was issued with
\* the whitelist it had saved and has returned or raised.  The whitelist an
\* invocation saves is the one the server has at that moment, before any
\* set call of the invocation itself.
C28_OneSelectionAtATime ==
    [][/\ handled' # handled =>
             /\ proc_pc = "get"
             /\ item_outcome # "handling"
             /\ set_calls # <<>> =>
                   /\ Len(set_calls) = 2
                   /\ set_calls[2] = saved
                   /\ restore_result \in {"ok", "failed"}
       /\ (proc_pc = "save_whitelist" /\ proc_pc' = "set_selection") =>
             /\ set_calls = <<>>
             /\ saved' = whitelist
             /\ whitelist' = whitelist]_vars

\* A second match_start is being handled after the restore of the first
\* one did not take effect: the whitelist it saved is the first selection.
C28_Witness ==
    /\ Len(handled) = 2
    /\ handled[1].action = match_start
    /\ cur.action = match_start
    /\ proc_pc = "set_selection"
    /\ saved # LayerIds

\* No step of the orchestrator's group or of the controller's tasks is
\* possible any more.
SupervisorQuiescent == ~ENABLED NextSupervisor

\* C31: once another task of the orchestrator's group has raised, the group
\* comes to its end: the bot task is cancelled, this server's controller
\* has ended, and Orchestrator.run() raises.
C31_FailureEndsEveryController ==
    (sup.other = "failed" /\ SupervisorQuiescent) =>
        /\ sup.bot = "cancelled"
        /\ ctl_pc = "done"
        /\ sup.run = "raised"

\* C32: an upload_server_votemap_settings or set_server_votemap_enabled
\* call that ends with an error leaves every live controller as it was.
C32_ErrorLeavesControllerUnchanged ==
    [][(/\ OrchStep
        /\ orch_result'.op \in {"upload", "set_enabled"}
        /\ orch_result'.outcome # "ok") =>
            server_controllers' = server_controllers]_vars

\* C33: a server that add_guild_server has persisted has a running
\* controller once the call is over, and a server that remove_guild_server
\* has deleted has none.
C33_ControllersFollowStore ==
    [][(OrchStep /\ orch_result'.outcome = "ok") =>
          /\ orch_result'.op = "add" => server_controllers'[orch_result'.server].running
          /\ orch_result'.op = "remove" => ~server_controllers'[orch_result'.server].running]_vars

\* C34: stop() never raises, whenever it is called.
C34_StopNeverRaises == stopper_pc # "raised"

\* C35: an update succeeds only when the stored version is the one its
\* object was read at, and then the stored version grows by one; no two
\* updates read at the same version succeed; an update that finds another
\* version ends with ConcurrencyError, and an update that does not succeed
\* leaves the stored document as it is.
C35_OptimisticUpdate ==
    [][\A o \in Ops :
          (ops[o].pc = "read" /\ ops'[o].pc = "done") =>
             /\ ops'[o].outcome \in {"ok", "ConcurrencyError", "DatastoreError"}
             /\ ops'[o].outcome = "ok" =>
                   /\ doc.v = ops[o].read_v
                   /\ doc'.v = doc.v + 1
                   /\ doc'.data = o
                   /\ ops[o].read_v \notin succeeded
             /\ ops'[o].outcome = "ConcurrencyError" => doc.v # ops[o].read_v
             /\ ops'[o].outcome # "ok" => doc' = doc]_vars

\* Two updates read at the same version: the first has succeeded, the
\* second has ended with ConcurrencyError and the document is the first's.
C35_Witness ==
    /\ ops["op1"].outcome = "ok"
    /\ ops["op2"].outcome = "ConcurrencyError"
    /\ ops["op1"].read_v = ops["op2"].read_v
    /\ doc.data = "op1"
    /\ doc.v = ops["op1"].read_v + 1

\* C36: get_selection does not raise, whatever the layers of the history
\* to exclude are (leaving aside the comparison of sides, which does not
\* look at the history).
C36_HistoryNeverFailsSelection == ~sel_in.opposite_sides => sel_pc # "raised"

\* C37: after an offensive layer, with consecutive offensives not allowed,
\* no offensive layer is yielded; after a control, phased or majority layer,
\* with consecutive skirmishes not allowed, no layer of those modes is.
C37_NoConsecutiveOffensiveOrSkirmish ==
    /\ (game_mode(sel_in.current) = "offensive" /\ ~sel_in.consecutive_offensives) =>
          \A i \in DOMAIN yielded : game_mode(yielded[i]) # "offensive"
    /\ (game_mode(sel_in.current) \in SKIRMISH_MODES /\ ~sel_in.consecutive_skirmishes) =>
          \A i \in DOMAIN yielded : game_mode(yielded[i]) \notin SKIRMISH_MODES

\* After the phased layer, with a control layer in the catalog and asked
\* for, the selection is over and holds warfare and offensive layers only.
C37_Witness ==
    /\ sel_pc = "done"
    /\ sel_in.current = "P1"
    /\ ~sel_in.consecutive_skirmishes
    /\ sel_in.layers = Universe
    /\ sel_in.excluded = {}
    /\ sel_in.s = MaxCount
    /\ Len(yielded) = 4

\* The game modes of a bucket's candidates, as the specification has them.
BucketModes(group) == IF group = "skirmish" THEN SKIRMISH_MODES ELSE {group}

\* C38: the rows a bucket draws from are the catalog layers of the bucket's
\* game modes (skirmish: control, phased, majority) that the exclusions
\* leave.
C38_BucketCandidates ==
    (sel_pc \in Groups /\ sel_i = 0 /\ ~returns_empty(sel_in, sel_pc)) =>
        sel_df = filtered(sel_in, {l \in sel_in.layers : game_mode(l) \in BucketModes(sel_pc)})

\* C39: a draw of _select_layers is made only while a row has a weight; it
\* takes a layer that was not chosen before, which has no weight afterwards,
\* so the ids chosen so far are as many as the draws made and none of them
\* has a weight.
C39_ChosenOnceOnly ==
    [][(sel_pc \in Groups /\ sel_pc' = sel_pc /\ sel_i' = sel_i + 1) =>
          /\ sel_df # {}
          /\ \E l \in sel_df \ selected_layers : selected_layers' = selected_layers \cup {l}
          /\ selected_layers' \cap sel_df' = {}
          /\ Cardinality(selected_layers') = sel_i']_vars

\* Two draws were made in the warfare bucket and gave two layers.
C39_Witness ==
    /\ sel_pc = "warfare"
    /\ sel_i = 2
    /\ selected_layers = {"W1", "W2"}
    /\ sel_df = {}

\* C40: the flag a successful set_server_votemap_enabled returns is true
\* exactly when the call changed the stored enabled state.
C40_ReturnsWhetherChanged ==
    [][(OrchStep /\ orch_result'.op = "set_enabled" /\ orch_result'.outcome = "ok") =>
          orch_result'.updated =
              (db'[orch_result'.server].enable # db[orch_result'.server].enable)]_vars

====
